---- MODULE Spec2Model ----
(***************************************************************************)
(* Model of the khimera plugin pipeline: plugin models (schemas), plugin   *)
(* instances, the plugin validator and the plugin registry.                *)
(*                                                                         *)
(* Python objects are modelled by records.  A call that may raise returns  *)
(* a record with an `exc` field ("none" when the call returns normally)    *)
(* next to the object state it leaves behind.                              *)
(***************************************************************************)
EXTENDS Integers, Sequences, FiniteSets, TLC

\* Python's None where the other values are strings.
None == "<None>"

\* Optional[bool]: NoBool is None, Some(b) is the boolean b.
NoBool == << >>
Some(b) == << b >>

\* The elements of a list, as a set.
Range(s) == {s[i] : i \in 1..Len(s)}

\* ------------------------------------------------------------------------
\* dict / UserDict / TypeConstrainedDict: insertion-ordered mapping, kept as
\* the sequence of its [k, v] entries.
\* ------------------------------------------------------------------------
DictEmpty == << >>

DictKeys(d) == [i \in 1..Len(d) |-> d[i].k]

DictKeySet(d) == {d[i].k : i \in 1..Len(d)}

DictHas(d, key) == key \in DictKeySet(d)

DictIndex(d, key) == CHOOSE i \in 1..Len(d) : d[i].k = key

DictGet(d, key) == d[DictIndex(d, key)].v

\* d[key] = val: an existing key keeps its position, a new key goes last.
DictSet(d, key, val) ==
    IF DictHas(d, key)
    THEN [d EXCEPT ![DictIndex(d, key)] = [k |-> key, v |-> val]]
    ELSE Append(d, [k |-> key, v |-> val])

\* del d[key] / d.pop(key), for a key that is present.
DictDel(d, key) == SelectSeq(d, LAMBDA e : e.k # key)

\* {**a, **b}
RECURSIVE DictMerge(_, _)
DictMerge(a, b) ==
    IF b = << >> THEN a
    ELSE DictMerge(DictSet(a, Head(b).k, Head(b).v), Tail(b))

\* ------------------------------------------------------------------------
\* Components (khimera.core.components, khimera.components.commands)
\* ------------------------------------------------------------------------
\* Command(name, callable, group): `id` is the identity of the Python object.
Command(id, name, group) ==
    [id |-> id, name |-> name, group |-> group, plugin |-> None]

\* Component.attach
attach(comp, plugin_name) == [comp EXCEPT !.plugin = plugin_name]

\* ------------------------------------------------------------------------
\* Specifications (khimera.core.specifications, khimera.components)
\* ------------------------------------------------------------------------
CommandSpec(name, groups, admits_new_groups, admits_top_level, required, unique) ==
    [cls |-> "CommandSpec", COMPONENT_TYPE |-> "Command", name |-> name,
     groups |-> groups, admits_new_groups |-> admits_new_groups,
     admits_top_level |-> admits_top_level,
     required |-> required, unique |-> unique]

\* CommandSpec.validate
CommandSpec_validate(spec, comp) ==
    IF comp.group = None /\ ~spec.admits_top_level THEN FALSE
    ELSE IF comp.group \notin spec.groups /\ ~spec.admits_new_groups THEN FALSE
    ELSE TRUE

\* MetaDataSpec(name, valid_type, required, unique)
MetaDataSpec(name, valid_type, required, unique) ==
    [cls |-> "MetaDataSpec", COMPONENT_TYPE |-> "MetaData", name |-> name,
     valid_type |-> valid_type, required |-> required, unique |-> unique]

\* Hook(name, func): the function is kept as what inspect.signature gives
\* of it, its parameters [name, kind, annotation] in order and its return
\* annotation. Types are kept by name; "empty" is inspect.Signature.empty.
Hook(id, name, func) == [id |-> id, name |-> name, func |-> func, plugin |-> None]

\* HookSpec(name, arg_types, allow_var_args, allow_var_kwargs, return_type):
\* arg_types is the ordered mapping of parameter names to types;
\* return_type is OneType(t) for a type, Any or None, and TupleOf(ts) for a
\* tuple of types.
OneType(t) == [tuple |-> FALSE, of |-> t]

TupleOf(ts) == [tuple |-> TRUE, of |-> ts]

HookSpec(name, arg_types, allow_var_args, allow_var_kwargs, return_type, required, unique) ==
    [cls |-> "HookSpec", COMPONENT_TYPE |-> "Hook", name |-> name,
     arg_types |-> arg_types, allow_var_args |-> allow_var_args,
     allow_var_kwargs |-> allow_var_kwargs, return_type |-> return_type,
     required |-> required, unique |-> unique]

\* issubclass(actual, expected) on the builtin classes: bool derives from
\* int, and every class from object.
issubclass(actual, expected) ==
    \/ actual = expected
    \/ expected = "object"
    \/ actual = "bool" /\ expected = "int"

\* isinstance(annotation, classes): an annotation is a class, an instance of
\* type, or None.
isinstance(annotation, classes) ==
    \E i \in 1..Len(classes) :
        \/ classes[i] = "object"
        \/ classes[i] = (IF annotation = None THEN "NoneType" ELSE "type")

\* HookSpec.describe_signature
describe_signature(fn) ==
    [positional |->
        SelectSeq(fn.parameters,
                  LAMBDA q : q.kind \in {"POSITIONAL_ONLY", "POSITIONAL_OR_KEYWORD"}),
     keyword_only |-> SelectSeq(fn.parameters, LAMBDA q : q.kind = "KEYWORD_ONLY"),
     has_var_positional |->
        \E i \in 1..Len(fn.parameters) : fn.parameters[i].kind = "VAR_POSITIONAL",
     has_var_keyword |->
        \E i \in 1..Len(fn.parameters) : fn.parameters[i].kind = "VAR_KEYWORD",
     return_annotation |-> fn.return_annotation]

\* HookSpec.check_inputs: zip(*pairs) of no pair yields nothing to unpack,
\* a ValueError; then names and order, then types, then *args and **kwargs.
check_inputs(spec, positional, has_var_positional, has_var_keyword) ==
    IF spec.arg_types = << >> \/ positional = << >>
    THEN [exc |-> "ValueError", ret |-> FALSE]
    ELSE IF DictKeys(spec.arg_types) # [i \in 1..Len(positional) |-> positional[i].name]
    THEN [exc |-> "none", ret |-> FALSE]
    ELSE IF \E i \in 1..Len(positional) :
                /\ spec.arg_types[i].v # "Any"
                /\ ~issubclass(positional[i].annotation, spec.arg_types[i].v)
    THEN [exc |-> "none", ret |-> FALSE]
    ELSE IF has_var_positional /\ ~spec.allow_var_args
    THEN [exc |-> "none", ret |-> FALSE]
    ELSE IF has_var_keyword /\ ~spec.allow_var_kwargs
    THEN [exc |-> "none", ret |-> FALSE]
    ELSE [exc |-> "none", ret |-> TRUE]

\* HookSpec.check_output
check_output(spec, return_annotation) ==
    IF spec.return_type.tuple
    THEN isinstance(return_annotation, spec.return_type.of)
    ELSE IF spec.return_type.of = "Any" THEN TRUE
    ELSE IF spec.return_type.of = None THEN return_annotation \in {None, "empty"}
    ELSE return_annotation = spec.return_type.of

\* HookSpec.validate: check_inputs and check_output, the second only when
\* the first returned True.
HookSpec_validate(spec, obj) ==
    IF check_inputs(spec, describe_signature(obj.func).positional,
                    describe_signature(obj.func).has_var_positional,
                    describe_signature(obj.func).has_var_keyword).exc # "none"
    THEN [exc |-> "ValueError", ret |-> FALSE]
    ELSE [exc |-> "none",
          ret |-> /\ check_inputs(spec, describe_signature(obj.func).positional,
                                  describe_signature(obj.func).has_var_positional,
                                  describe_signature(obj.func).has_var_keyword).ret
                  /\ check_output(spec, describe_signature(obj.func).return_annotation)]

\* isinstance(spec, FieldSpec) / isinstance(spec, DependencySpec), by class.
FieldSpecClasses ==
    {"CommandSpec", "MetaDataSpec", "HookSpec", "APIExtensionSpec", "AssetSpec"}

DependencySpecClasses == {"PredicateDependency"}

PredicateDependency(name, predicate, fields) ==
    [cls |-> "PredicateDependency", name |-> name,
     predicate |-> predicate, fields |-> fields]

\* A host-supplied predicate of the shape documented for PredicateDependency:
\*   def both_or_neither(commands, main): return bool(commands) == bool(main)
\* The call predicate(**components) binds the referenced fields by keyword;
\* keywords other than the function's parameters are a TypeError.
ApplyPredicate(predicate, kwargs) ==
    IF DictKeySet(kwargs) = {"commands", "main"} /\ Len(kwargs) = 2
    THEN [exc |-> "none",
          ret |-> ((DictGet(kwargs, "commands") # << >>)
                    = (DictGet(kwargs, "main") # << >>))]
    ELSE [exc |-> "TypeError", ret |-> FALSE]

\* {field: plugin.components.get(field) for field in fields}, for fields that
\* are keys of plugin.components: one entry per field name, in the order of
\* first mention.
RECURSIVE referenced(_, _)
referenced(fields, plugin) ==
    IF fields = << >> THEN DictEmpty
    ELSE DictSet(referenced(SubSeq(fields, 1, Len(fields) - 1), plugin),
                 fields[Len(fields)],
                 DictGet(plugin.components, fields[Len(fields)]))

\* validate that calls the predicate with the fields the plugin has, also
\* when one of the referenced fields is missing.
validate_calls_anyway(spec, plugin) ==
    [exc |-> ApplyPredicate(spec.predicate,
                 referenced(SelectSeq(spec.fields,
                                      LAMBDA f : DictHas(plugin.components, f)),
                            plugin)).exc,
     ret |-> ApplyPredicate(spec.predicate,
                 referenced(SelectSeq(spec.fields,
                                      LAMBDA f : DictHas(plugin.components, f)),
                            plugin)).ret,
     calls |-> << referenced(SelectSeq(spec.fields,
                                       LAMBDA f : DictHas(plugin.components, f)),
                             plugin) >>]

\* PredicateDependency.validate(plugin): fails closed when a referenced field
\* is not a key of plugin.components. `calls` lists the keyword arguments of
\* each call of the predicate.
PredicateDependency_validate(spec, plugin) ==
    IF \E i \in 1..Len(spec.fields) : ~DictHas(plugin.components, spec.fields[i])
    THEN [exc |-> "none", ret |-> FALSE, calls |-> << >>]
    ELSE [exc |-> ApplyPredicate(spec.predicate, referenced(spec.fields, plugin)).exc,
          ret |-> ApplyPredicate(spec.predicate, referenced(spec.fields, plugin)).ret,
          calls |-> << referenced(spec.fields, plugin) >>]

\* ------------------------------------------------------------------------
\* PluginModel (khimera.plugins.declare)
\* ------------------------------------------------------------------------
PluginModel(name, version) ==
    [name |-> name, version |-> version,
     fields |-> DictEmpty, dependencies |-> DictEmpty]

\* PluginModel.specs
PluginModel_specs(m) == DictMerge(m.fields, m.dependencies)

\* add that raises KeyError but has stored the spec already.
add_stores_first(m, spec) ==
    IF spec.cls \notin FieldSpecClasses \cup DependencySpecClasses
    THEN [exc |-> "TypeError", model |-> m]
    ELSE [exc |-> IF DictHas(PluginModel_specs(m), spec.name) THEN "KeyError" ELSE "none",
          model |-> IF spec.cls \in FieldSpecClasses
                    THEN [m EXCEPT !.fields = DictSet(m.fields, spec.name, spec)]
                    ELSE [m EXCEPT !.dependencies =
                                      DictSet(m.dependencies, spec.name, spec)]]

\* add that looks for a name collision in the spec's own map only.
add_checks_own_map(m, spec) ==
    IF spec.cls \notin FieldSpecClasses \cup DependencySpecClasses
    THEN [exc |-> "TypeError", model |-> m]
    ELSE IF spec.cls \in FieldSpecClasses
    THEN IF DictHas(m.fields, spec.name)
         THEN [exc |-> "KeyError", model |-> m]
         ELSE [exc |-> "none",
               model |-> [m EXCEPT !.fields = DictSet(m.fields, spec.name, spec)]]
    ELSE IF DictHas(m.dependencies, spec.name)
         THEN [exc |-> "KeyError", model |-> m]
         ELSE [exc |-> "none",
               model |-> [m EXCEPT !.dependencies =
                                      DictSet(m.dependencies, spec.name, spec)]]

\* PluginModel.add: the type is tested before the name is read.
PluginModel_add(m, spec) ==
    IF spec.cls \notin FieldSpecClasses \cup DependencySpecClasses
    THEN [exc |-> "TypeError", model |-> m]
    ELSE IF DictHas(PluginModel_specs(m), spec.name)
    THEN [exc |-> "KeyError", model |-> m]
    ELSE IF spec.cls \in FieldSpecClasses
    THEN [exc |-> "none",
          model |-> [m EXCEPT !.fields = DictSet(m.fields, spec.name, spec)]]
    ELSE [exc |-> "none",
          model |-> [m EXCEPT !.dependencies = DictSet(m.dependencies, spec.name, spec)]]

\* remove that deletes the name from every map that holds it and says
\* nothing when no map does.
remove_silently(m, name) ==
    [exc |-> "none",
     model |-> [m EXCEPT !.fields = DictDel(@, name),
                         !.dependencies = DictDel(@, name)]]

\* PluginModel.remove
PluginModel_remove(m, name) ==
    IF DictHas(m.fields, name)
    THEN [exc |-> "none", model |-> [m EXCEPT !.fields = DictDel(@, name)]]
    ELSE IF DictHas(m.dependencies, name)
    THEN [exc |-> "none", model |-> [m EXCEPT !.dependencies = DictDel(@, name)]]
    ELSE [exc |-> "KeyError", model |-> m]

\* Host-supplied custom filters, functions of one FieldSpec:
\*   named_main(field): return field.name == "main"
\*   nothing(field):    return False
ApplyFilter(custom_filter, field) ==
    CASE custom_filter = "named_main" -> field.name = "main"
      [] custom_filter = "nothing"    -> FALSE

\* meets_criteria that leaves the required criterion out.
ignores_required(field, category, unique, required, custom_filter) ==
    /\ (category = None \/ field.COMPONENT_TYPE = category)
    /\ (unique = NoBool \/ Some(field.unique) = unique)
    /\ (custom_filter = None \/ ApplyFilter(custom_filter, field))

\* PluginModel.filter.meets_criteria
meets_criteria(field, category, unique, required, custom_filter) ==
    /\ (category = None \/ field.COMPONENT_TYPE = category)
    /\ (unique = NoBool \/ Some(field.unique) = unique)
    /\ (required = NoBool \/ Some(field.required) = required)
    /\ (custom_filter = None \/ ApplyFilter(custom_filter, field))

\* PluginModel.filter
PluginModel_filter(m, category, unique, required, custom_filter) ==
    SelectSeq(m.fields,
              LAMBDA e : meets_criteria(e.v, category, unique, required, custom_filter))

\* ------------------------------------------------------------------------
\* Plugin (khimera.plugins.create)
\* ------------------------------------------------------------------------
Plugin(m, name, version) ==
    [model |-> m, name |-> name, version |-> version,
     components |-> DictEmpty]

\* Plugin.get(key): the collection under key, or an empty one.
Plugin_get(plugin, key) ==
    IF DictHas(plugin.components, key) THEN DictGet(plugin.components, key) ELSE << >>

\* Plugin.get(key, names=True)
Plugin_get_names(plugin, key) ==
    [i \in 1..Len(Plugin_get(plugin, key)) |-> Plugin_get(plugin, key)[i].name]

\* add that stamps the component before it looks for a duplicate.
add_stamps_first(plugin, key, comp) ==
    LET created == IF DictHas(plugin.components, key)
                   THEN plugin
                   ELSE [plugin EXCEPT !.components = DictSet(@, key, << >>)]
    IN  IF comp.name \in Range(Plugin_get_names(created, key))
        THEN [exc |-> "AttributeError", plugin |-> created,
              comp |-> attach(comp, plugin.name)]
        ELSE [exc |-> "none",
              plugin |-> [created EXCEPT !.components =
                            DictSet(@, key,
                                    Append(DictGet(@, key), attach(comp, plugin.name)))],
              comp |-> attach(comp, plugin.name)]

\* add that appends without looking for a duplicate.
add_unchecked(plugin, key, comp) ==
    [exc |-> "none",
     plugin |-> [plugin EXCEPT !.components =
                   DictSet(@, key, Append(Plugin_get(plugin, key),
                                          attach(comp, plugin.name)))],
     comp |-> attach(comp, plugin.name)]

\* Plugin.add: the field entry is created before the duplicate check; the
\* component is stamped with the plugin's name when it is appended. The
\* outcome holds the plugin and the component object after the call.
Plugin_add(plugin, key, comp) ==
    LET created == IF DictHas(plugin.components, key)
                   THEN plugin
                   ELSE [plugin EXCEPT !.components = DictSet(@, key, << >>)]
    IN  IF comp.name \in Range(Plugin_get_names(created, key))
        THEN [exc |-> "AttributeError", plugin |-> created, comp |-> comp]
        ELSE [exc |-> "none",
              plugin |-> [created EXCEPT !.components =
                            DictSet(@, key,
                                    Append(DictGet(@, key), attach(comp, plugin.name)))],
              comp |-> attach(comp, plugin.name)]

\* list.remove(x): drops the first element equal to x.
ListRemove(s, x) ==
    LET i == CHOOSE j \in 1..Len(s) : s[j] = x /\ \A h \in 1..(j - 1) : s[h] # x
    IN  SubSeq(s, 1, i - 1) \o SubSeq(s, i + 1, Len(s))

\* next(comp for comp in comps if comp.name == comp_name), for a name that
\* one of comps has.
FirstNamed(comps, comp_name) ==
    comps[CHOOSE j \in 1..Len(comps) :
              /\ comps[j].name = comp_name
              /\ \A h \in 1..(j - 1) : comps[h].name # comp_name]

\* remove that deletes the whole entry also when a component is named.
remove_whole_entry(plugin, key, comp_name) ==
    IF ~DictHas(plugin.components, key)
    THEN [exc |-> "KeyError", plugin |-> plugin]
    ELSE IF comp_name # None /\ comp_name \notin Range(Plugin_get_names(plugin, key))
    THEN [exc |-> "KeyError", plugin |-> plugin]
    ELSE [exc |-> "none", plugin |-> [plugin EXCEPT !.components = DictDel(@, key)]]

\* Plugin.remove: without a component name the whole entry goes; with one,
\* the component goes and the entry stays, even when it is left empty.
Plugin_remove(plugin, key, comp_name) ==
    IF ~DictHas(plugin.components, key)
    THEN [exc |-> "KeyError", plugin |-> plugin]
    ELSE IF comp_name = None
    THEN [exc |-> "none", plugin |-> [plugin EXCEPT !.components = DictDel(@, key)]]
    ELSE IF comp_name \notin Range(Plugin_get_names(plugin, key))
    THEN [exc |-> "KeyError", plugin |-> plugin]
    ELSE [exc |-> "none",
          plugin |-> [plugin EXCEPT !.components =
                        DictSet(@, key,
                                ListRemove(DictGet(@, key),
                                           FirstNamed(DictGet(@, key), comp_name)))]]

\* DeepCopyable.copy on the object at reference ref: a new object, equal to
\* the first and sharing nothing with it; the result is the memory after the
\* call and the reference of the copy.
copy(objs, ref) == [objects |-> Append(objs, objs[ref]), ref |-> Len(objs) + 1]

\* The memory cell `cell` once the component object comp has changed: a
\* plugin shows the change in every collection that holds the object, and the
\* cell of the object itself is the object.
shows(cell, comp) ==
    IF "components" \in DOMAIN cell
    THEN [cell EXCEPT !.components =
            [i \in 1..Len(cell.components) |->
                [k |-> cell.components[i].k,
                 v |-> [j \in 1..Len(cell.components[i].v) |->
                          IF cell.components[i].v[j].id = comp.id
                          THEN comp
                          ELSE cell.components[i].v[j]]]]]
    ELSE IF cell.id = comp.id THEN comp ELSE cell

\* plugin.add(key, comp) on the plugin at reference ref and the component
\* object at reference cref of the memory objs: the outcome of the call and
\* the memory after it, where every holder of the object sees its stamp.
add_in(objs, ref, key, cref) ==
    [exc |-> Plugin_add(objs[ref], key, objs[cref]).exc,
     objects |->
        [r \in 1..Len(objs) |->
            shows(IF r = ref THEN Plugin_add(objs[ref], key, objs[cref]).plugin
                             ELSE objs[r],
                  Plugin_add(objs[ref], key, objs[cref]).comp)]]

\* plugin.remove(key, comp_name) on the plugin at reference ref of objs.
remove_in(objs, ref, key, comp_name) ==
    [exc |-> Plugin_remove(objs[ref], key, comp_name).exc,
     objects |-> [objs EXCEPT ![ref] = Plugin_remove(objs[ref], key, comp_name).plugin]]

\* ------------------------------------------------------------------------
\* PluginValidator (khimera.management.validate)
\* ------------------------------------------------------------------------
\* PluginValidator.__init__; `exc` is the exception a check has raised.
PluginValidator(plugin) ==
    [plugin |-> plugin, model |-> plugin.model,
     missing |-> << >>, unknown |-> << >>, not_unique |-> << >>,
     invalid |-> DictEmpty, deps_unsatisfied |-> << >>, exc |-> "none"]

\* PluginModel.get: the spec called name, looked up in specs.
PluginModel_has(m, name) == DictHas(PluginModel_specs(m), name)

PluginModel_get(m, name) == DictGet(PluginModel_specs(m), name)

\* check_required that also flags a required field whose collection is
\* empty.
required_needs_a_component(v) ==
    [v EXCEPT !.missing =
        @ \o SelectSeq(DictKeys(PluginModel_filter(v.model, None, NoBool, Some(TRUE), None)),
                       LAMBDA field : Plugin_get(v.plugin, field) = << >>)]

\* check_required
check_required(v) ==
    LET specs == DictKeys(PluginModel_filter(v.model, None, NoBool, Some(TRUE), None))
    IN  [v EXCEPT !.missing =
            @ \o SelectSeq(specs, LAMBDA field : ~DictHas(v.plugin.components, field))]

\* check_unique that flags a unique field from its first component on.
unique_means_none(v) ==
    [v EXCEPT !.not_unique =
        @ \o SelectSeq(DictKeys(PluginModel_filter(v.model, None, Some(TRUE), NoBool, None)),
                       LAMBDA field : Len(Plugin_get(v.plugin, field)) >= 1)]

\* check_unique
check_unique(v) ==
    LET specs == DictKeys(PluginModel_filter(v.model, None, Some(TRUE), NoBool, None))
    IN  [v EXCEPT !.not_unique =
            @ \o SelectSeq(specs, LAMBDA field : Len(Plugin_get(v.plugin, field)) > 1)]

\* check_unknown that looks the key up among all specs of the model.
unknown_among_specs(v) ==
    [v EXCEPT !.unknown =
        @ \o SelectSeq(DictKeys(v.plugin.components),
                       LAMBDA field : ~PluginModel_has(v.model, field))]

\* check_unknown
check_unknown(v) ==
    [v EXCEPT !.unknown =
        @ \o SelectSeq(DictKeys(v.plugin.components),
                       LAMBDA field : ~DictHas(v.model.fields, field))]

\* spec.validate(item) as check_rules calls it, spec being whatever
\* model.get(field) returned: None has no validate (AttributeError); a
\* MetaDataSpec reads item.value, which a Command does not have
\* (AttributeError); a dependency spec reads item.components, which a
\* component does not have (AttributeError), unless it references no field
\* and calls its predicate without arguments.
Spec_validate(m, field, item) ==
    IF ~PluginModel_has(m, field)
    THEN [exc |-> "AttributeError", ret |-> FALSE]
    ELSE LET spec == PluginModel_get(m, field)
         IN  IF spec.cls = "CommandSpec"
             THEN [exc |-> "none", ret |-> CommandSpec_validate(spec, item)]
             ELSE IF spec.cls = "MetaDataSpec"
             THEN [exc |-> "AttributeError", ret |-> FALSE]
             ELSE IF Len(spec.fields) > 0
             THEN [exc |-> "AttributeError", ret |-> FALSE]
             ELSE ApplyPredicate(spec.predicate, DictEmpty)

\* [item for item in comps if not spec.validate(item)], given the outcomes
\* res of spec.validate on the items of comps.
invalid_components(comps, res) ==
    LET idx == SelectSeq([j \in 1..Len(comps) |-> j], LAMBDA j : ~res[j].ret)
    IN  [n \in 1..Len(idx) |-> comps[idx[n]]]

\* One turn of check_rules' loop, for the entry field: comps, given the
\* outcomes res of spec.validate on the items of comps: the first call that
\* raises ends the check, otherwise the failing items, if any, are recorded.
check_rules_entry(v, field, comps, res) ==
    IF \E j \in 1..Len(res) : res[j].exc # "none"
    THEN [v EXCEPT !.exc =
            res[CHOOSE j \in 1..Len(res) :
                    /\ res[j].exc # "none"
                    /\ \A h \in 1..(j - 1) : res[h].exc = "none"].exc]
    ELSE IF \E j \in 1..Len(res) : ~res[j].ret
    THEN [v EXCEPT !.invalid = DictSet(@, field, invalid_components(comps, res))]
    ELSE v

\* check_rules, from the i-th entry of plugin.components on; an exception
\* ends the loop.
RECURSIVE check_rules_from(_, _)
check_rules_from(v, i) ==
    IF i > Len(v.plugin.components) \/ v.exc # "none" THEN v
    ELSE check_rules_from(
            check_rules_entry(v, v.plugin.components[i].k, v.plugin.components[i].v,
                [j \in 1..Len(v.plugin.components[i].v) |->
                    Spec_validate(v.model, v.plugin.components[i].k,
                                  v.plugin.components[i].v[j])]),
            i + 1)

check_rules(v) == check_rules_from(v, 1)

\* One turn of check_dependencies' loop, given the outcome res of
\* spec.validate(plugin) for the dependency spec called field.
check_dependencies_entry(v, field, res) ==
    IF res.exc # "none" THEN [v EXCEPT !.exc = res.exc]
    ELSE IF ~res.ret THEN [v EXCEPT !.deps_unsatisfied = Append(@, field)]
    ELSE v

\* check_dependencies, from the i-th dependency spec on; an exception ends
\* the loop.
RECURSIVE check_dependencies_from(_, _)
check_dependencies_from(v, i) ==
    IF i > Len(v.model.dependencies) \/ v.exc # "none" THEN v
    ELSE check_dependencies_from(
            check_dependencies_entry(v, v.model.dependencies[i].k,
                PredicateDependency_validate(v.model.dependencies[i].v, v.plugin)),
            i + 1)

check_dependencies(v) == check_dependencies_from(v, 1)

\* A verdict that does not look at the unsatisfied dependencies.
verdict_without_dependencies(v) ==
    [exc |-> v.exc,
     ret |-> v.exc = "none"
             /\ ~(\/ v.missing # << >>
                  \/ v.unknown # << >>
                  \/ v.not_unique # << >>
                  \/ v.invalid # DictEmpty),
     validator |-> v]

\* The verdict of validate() on the validator v left by the five checks:
\* an exception of a check propagates, otherwise the plugin is valid iff
\* all five finding collections are empty.
validate_verdict(v) ==
    [exc |-> v.exc,
     ret |-> v.exc = "none"
             /\ ~(\/ v.missing # << >>
                  \/ v.unknown # << >>
                  \/ v.not_unique # << >>
                  \/ v.invalid # DictEmpty
                  \/ v.deps_unsatisfied # << >>),
     validator |-> v]

\* PluginValidator.validate: the five checks in order, then the verdict.
\* Returns the validator after the call and the call's result.
PluginValidator_validate(v) ==
    validate_verdict(
        check_dependencies(check_rules(check_unknown(check_unique(check_required(v))))))

\* The five checks, in the order validate() calls them.
Checks ==
    << "check_required", "check_unique", "check_unknown", "check_rules",
       "check_dependencies" >>

\* getattr(validator, name)(), for name among Checks, on a validator whose
\* calls so far have returned.
call_check(v, name) ==
    IF name = "check_required" THEN check_required(v)
    ELSE IF name = "check_unique" THEN check_unique(v)
    ELSE IF name = "check_unknown" THEN check_unknown(v)
    ELSE IF name = "check_rules" THEN check_rules(v)
    ELSE check_dependencies(v)

\* for name in order: getattr(validator, name)(), from the i-th name on; a
\* check that raises ends the run.
RECURSIVE call_checks_from(_, _, _)
call_checks_from(v, order, i) ==
    IF i > Len(order) \/ v.exc # "none" THEN v
    ELSE call_checks_from(call_check(v, order[i]), order, i + 1)

call_checks(v, order) == call_checks_from(v, order, 1)

\* validate() as a method that clears the findings before it checks.
validate_anew(v) == PluginValidator_validate(PluginValidator(v.plugin))

\* A second validate() on the validator v: the checks run again on the
\* collections the first call left.
validate_again(v) == PluginValidator_validate([v EXCEPT !.exc = "none"])

\* valid_plugin.components.pop(key) on the components st.comps of the copy:
\* KeyError for a key that is not there.
components_pop(st, key) ==
    IF st.exc # "none" THEN st
    ELSE IF DictHas(st.comps, key) THEN [st EXCEPT !.comps = DictDel(@, key)]
    ELSE [st EXCEPT !.exc = "KeyError"]

\* for key in keys: valid_plugin.components.pop(key)
RECURSIVE pop_each(_, _)
pop_each(st, keys) ==
    IF keys = << >> THEN st
    ELSE pop_each(components_pop(st, Head(keys)), Tail(keys))

\* TypeConstrainedDict.is_valid_value for the value type ComponentSet, by
\* the class of the value.
is_valid_value(cls) == cls = "ComponentSet"

\* valid_plugin.components[key] = [valid_plugin.components[key][0]]: the
\* right-hand side is read first (KeyError, IndexError), and is a plain
\* list, which TypeConstrainedDict.__setitem__ tests against ComponentSet.
keep_first(st, key) ==
    IF st.exc # "none" THEN st
    ELSE IF ~DictHas(st.comps, key) THEN [st EXCEPT !.exc = "KeyError"]
    ELSE IF DictGet(st.comps, key) = << >> THEN [st EXCEPT !.exc = "IndexError"]
    ELSE IF ~is_valid_value("list") THEN [st EXCEPT !.exc = "TypeError"]
    ELSE [st EXCEPT !.comps = DictSet(@, key, << DictGet(@, key)[1] >>)]

\* for key in keys: keep the first component under key
RECURSIVE keep_first_each(_, _)
keep_first_each(st, keys) ==
    IF keys = << >> THEN st
    ELSE keep_first_each(keep_first(st, Head(keys)), Tail(keys))

\* The three loops of extract on the components comps of valid_plugin.
extract_loops(v, comps) ==
    keep_first_each(
        pop_each(pop_each([exc |-> "none", comps |-> comps], DictKeys(v.invalid)),
                 v.unknown),
        v.not_unique)

\* The outcome of extract, given the memory objs, the reference ref of
\* valid_plugin and the outcome st of the loops: what the loops did is in
\* memory whether they raised or not; a reference is returned if they did
\* not.
extract_done(objs, ref, st) ==
    [exc |-> st.exc,
     objects |-> [objs EXCEPT ![ref].components = st.comps],
     ref |-> IF st.exc = "none" THEN ref ELSE 0]

\* extract, given the copy made: the loops run on the copy.
extract_on(v, made) ==
    extract_done(made.objects, made.ref,
                 extract_loops(v, made.objects[made.ref].components))

\* extract that works on the validated plugin itself.
extract_in_place(v, objs) == extract_on(v, [objects |-> objs, ref |-> 1])

\* PluginValidator.extract, the validated plugin being the object at
\* reference 1 of the memory objs.
PluginValidator_extract(v, objs) == extract_on(v, copy(objs, 1))

\* ------------------------------------------------------------------------
\* ConflictResolver (khimera.plugins.register)
\* ------------------------------------------------------------------------
\* Each policy returns the element to register (`some` tells whether it is
\* one, or None), whether a UserWarning was emitted and what was raised.
\* raise_error as a policy that only warns and lets the new element through.
raise_error_warns(new) ==
    [exc |-> "none", warned |-> TRUE, some |-> TRUE, new |-> new]

raise_error(new) ==
    [exc |-> "ValueError", warned |-> FALSE, some |-> FALSE, new |-> new]

\* override as a policy that warns but returns None.
override_discards(new) ==
    [exc |-> "none", warned |-> TRUE, some |-> FALSE, new |-> new]

override(new) ==
    [exc |-> "none", warned |-> TRUE, some |-> TRUE, new |-> new]

\* ignore as a policy that warns but returns the new element.
ignore_returns_new(new) ==
    [exc |-> "none", warned |-> TRUE, some |-> TRUE, new |-> new]

ignore(new) ==
    [exc |-> "none", warned |-> TRUE, some |-> FALSE, new |-> new]

MODES == {"RAISE_ERROR", "OVERRIDE", "IGNORE"}

\* ConflictResolver.resolve
resolve(mode, new) ==
    CASE mode = "RAISE_ERROR" -> raise_error(new)
      [] mode = "OVERRIDE"    -> override(new)
      [] mode = "IGNORE"      -> ignore(new)

\* ------------------------------------------------------------------------
\* PluginRegistry (khimera.plugins.register)
\* ------------------------------------------------------------------------
\* PluginRegistry.__init__
PluginRegistry(resolver_mode, validator_class, enable_default) ==
    [resolver |-> resolver_mode, validator_type |-> validator_class,
     enable_by_default |-> enable_default,
     plugins |-> DictEmpty, enabled |-> << >>, components |-> DictEmpty]

\* PluginRegistry.get: `if name:` and `if not comps:` test truthiness, so an
\* empty name filters nothing and an empty pool entry gives a new empty list.
\* get that does not look at the enabled list.
get_of_all_plugins(reg, key, name, enabled_only) ==
    IF ~DictHas(reg.components, key) THEN << >>
    ELSE IF name # None /\ name # ""
    THEN SelectSeq(DictGet(reg.components, key), LAMBDA comp : comp.name = name)
    ELSE DictGet(reg.components, key)

PluginRegistry_get(reg, key, name, enabled_only) ==
    LET comps == IF DictHas(reg.components, key)
                 THEN DictGet(reg.components, key) ELSE << >>
        named == IF name # None /\ name # ""
                 THEN SelectSeq(comps, LAMBDA comp : comp.name = name)
                 ELSE comps
    IN  IF comps = << >> THEN << >>
        ELSE IF enabled_only
        THEN SelectSeq(named, LAMBDA comp : comp.plugin \in Range(reg.enabled))
        ELSE named

\* enable without the check that the plugin is registered.
enable_unchecked(reg, name) ==
    IF name \notin Range(reg.enabled)
    THEN [exc |-> "none", reg |-> [reg EXCEPT !.enabled = Append(@, name)]]
    ELSE [exc |-> "none", reg |-> reg]

\* enable without the check that the plugin is already enabled.
enable_appends(reg, name) ==
    IF ~DictHas(reg.plugins, name)
    THEN [exc |-> "AttributeError", reg |-> reg]
    ELSE [exc |-> "none", reg |-> [reg EXCEPT !.enabled = Append(@, name)]]

\* PluginRegistry.enable
PluginRegistry_enable(reg, name) ==
    IF ~DictHas(reg.plugins, name)
    THEN [exc |-> "AttributeError", reg |-> reg]
    ELSE IF name \notin Range(reg.enabled)
    THEN [exc |-> "none", reg |-> [reg EXCEPT !.enabled = Append(@, name)]]
    ELSE [exc |-> "none", reg |-> reg]

\* disable without the membership guard: list.remove raises ValueError for
\* a name that is not in the list.
disable_unguarded(reg, name) ==
    IF name \in Range(reg.enabled)
    THEN [exc |-> "none", reg |-> [reg EXCEPT !.enabled = ListRemove(@, name)]]
    ELSE [exc |-> "ValueError", reg |-> reg]

\* PluginRegistry.disable
PluginRegistry_disable(reg, name) ==
    IF name \in Range(reg.enabled)
    THEN [exc |-> "none", reg |-> [reg EXCEPT !.enabled = ListRemove(@, name)]]
    ELSE [exc |-> "none", reg |-> reg]

\* PluginRegistry.unpack, from the i-th entry of plugin.components on.
RECURSIVE unpack_from(_, _, _)
unpack_from(reg, plugin, i) ==
    IF i > Len(plugin.components) THEN reg
    ELSE LET key   == plugin.components[i].k
             comps == plugin.components[i].v
             made  == IF DictHas(reg.components, key)
                      THEN reg.components
                      ELSE DictSet(reg.components, key, << >>)
         IN  unpack_from(
                 [reg EXCEPT !.components = DictSet(made, key, DictGet(made, key) \o comps)],
                 plugin, i + 1)

\* unpack that assigns the plugin's collection to the pool entry instead of
\* extending the entry.
RECURSIVE unpack_replaces_from(_, _, _)
unpack_replaces_from(reg, plugin, i) ==
    IF i > Len(plugin.components) THEN reg
    ELSE unpack_replaces_from(
             [reg EXCEPT !.components =
                 DictSet(@, plugin.components[i].k, plugin.components[i].v)],
             plugin, i + 1)

unpack_replaces(reg, plugin) == unpack_replaces_from(reg, plugin, 1)

\* unpack that leaves out a component whose name is pooled under the key
\* already.
RECURSIVE unpack_new_names_from(_, _, _)
unpack_new_names_from(reg, plugin, i) ==
    IF i > Len(plugin.components) THEN reg
    ELSE unpack_new_names_from(
             [reg EXCEPT !.components =
                 DictSet(@, plugin.components[i].k,
                     (IF DictHas(@, plugin.components[i].k)
                      THEN DictGet(@, plugin.components[i].k) ELSE << >>)
                     \o SelectSeq(plugin.components[i].v,
                            LAMBDA c : ~(/\ DictHas(reg.components, plugin.components[i].k)
                                         /\ \E o \in Range(DictGet(reg.components,
                                                                  plugin.components[i].k)) :
                                                o.name = c.name)))],
             plugin, i + 1)

unpack_new_names(reg, plugin) == unpack_new_names_from(reg, plugin, 1)

PluginRegistry_unpack(reg, plugin) == unpack_from(reg, plugin, 1)

\* The outcome of register, given what its last call, enable, returned.
register_done(out, warned) == [exc |-> out.exc, warned |-> warned, reg |-> out.reg]

\* The end of register's accepting branch on the registry that holds the
\* unpacked plugin, always enabling the plugin.
enable_regardless(reg, name, warned) ==
    register_done(PluginRegistry_enable(reg, name), warned)

\* The end of register's accepting branch on the registry that holds the
\* unpacked plugin: enable it if configured so.
\* register that puts the name at the end of the enabled list itself.
enable_by_append(reg, name, warned) ==
    IF reg.enable_by_default
    THEN [exc |-> "none", warned |-> warned,
          reg |-> [reg EXCEPT !.enabled = Append(@, name)]]
    ELSE [exc |-> "none", warned |-> warned, reg |-> reg]

register_enable(reg, name, warned) ==
    IF reg.enable_by_default
    THEN register_done(PluginRegistry_enable(reg, name), warned)
    ELSE [exc |-> "none", warned |-> warned, reg |-> reg]

\* PluginRegistry.register, the branch taken when there is an element to
\* register: store the plugin, unpack it, enable it if configured so.
register_accept(reg, plugin, warned) ==
    register_enable(
        PluginRegistry_unpack([reg EXCEPT !.plugins = DictSet(@, plugin.name, plugin)],
                              plugin),
        plugin.name, warned)

\* PluginRegistry.register, after validation succeeded, given the resolver's
\* answer res: its exception propagates, its None ends the call.
register_resolved(reg, plugin, res) ==
    IF res.exc # "none"
    THEN [exc |-> res.exc, warned |-> res.warned, reg |-> reg]
    ELSE IF ~res.some
    THEN [exc |-> "none", warned |-> res.warned, reg |-> reg]
    ELSE register_accept(reg, plugin, res.warned)

\* new = plugin, or the resolver's answer when the name is registered.
register_new(reg, plugin) ==
    IF DictHas(reg.plugins, plugin.name)
    THEN resolve(reg.resolver, plugin)
    ELSE [exc |-> "none", warned |-> FALSE, some |-> TRUE, new |-> plugin]

\* register that stores and unpacks the plugin before it looks at the
\* validator's verdict.
stores_before_verdict(reg, plugin, verdict) ==
    IF verdict.exc # "none"
    THEN [exc |-> verdict.exc, warned |-> FALSE, reg |-> reg]
    ELSE IF ~verdict.ret
    THEN [exc |-> "ValueError", warned |-> FALSE,
          reg |-> PluginRegistry_unpack(
                      [reg EXCEPT !.plugins = DictSet(@, plugin.name, plugin)], plugin)]
    ELSE register_resolved(reg, plugin, register_new(reg, plugin))

\* PluginRegistry.register, given the verdict of validate(): an exception of
\* validate() propagates, a False verdict is a ValueError.
register_validated(reg, plugin, verdict) ==
    IF verdict.exc # "none"
    THEN [exc |-> verdict.exc, warned |-> FALSE, reg |-> reg]
    ELSE IF ~verdict.ret
    THEN [exc |-> "ValueError", warned |-> FALSE, reg |-> reg]
    ELSE register_resolved(reg, plugin, register_new(reg, plugin))

\* The classes a registry is built with as validator_type: the default,
\* khimera.plugins.validate.PluginValidator, which register.py imports, and
\* khimera.management.validate.PluginValidator, which the host can pass.
DefaultValidator == "khimera.plugins.validate.PluginValidator"

ManagementValidator == "khimera.management.validate.PluginValidator"

ValidatorTypes == {DefaultValidator, ManagementValidator}

\* validate() of khimera.plugins.validate.PluginValidator on a Plugin
\* object: check_required filters the model by the category `self`, which
\* no field has, and records nothing; check_unique and check_unknown then
\* read plugin.contributions, an attribute a Plugin does not have.
plugins_PluginValidator_validate(v) ==
    validate_verdict([v EXCEPT !.exc = "AttributeError"])

\* validator = self.validator_type(plugin); validator.validate()
validator_type_validate(reg, plugin) ==
    IF reg.validator_type = ManagementValidator
    THEN PluginValidator_validate(PluginValidator(plugin))
    ELSE plugins_PluginValidator_validate(PluginValidator(plugin))

\* PluginRegistry.register
PluginRegistry_register(reg, plugin) ==
    register_validated(reg, plugin, validator_type_validate(reg, plugin))

\* ------------------------------------------------------------------------
\* The host's plugin model and the plugin objects offered for registration
\* ------------------------------------------------------------------------
\* PluginModel(...).add(spec).add(spec)...: the chained adds, in order.
RECURSIVE DeclareAll(_, _)
DeclareAll(m, specs) ==
    IF specs = << >> THEN m
    ELSE DeclareAll(PluginModel_add(m, Head(specs)).model, Tail(specs))

\* Plugin(...).add(key, comp).add(key, comp)...: the chained adds, in order.
RECURSIVE AddAll(_, _)
AddAll(plugin, adds) ==
    IF adds = << >> THEN plugin
    ELSE AddAll(Plugin_add(plugin, Head(adds)[1], Head(adds)[2]).plugin, Tail(adds))

\* A host model with a required multi-component field, an optional unique
\* field and a dependency between the two.
HostModel ==
    DeclareAll(PluginModel("host", "1.0"),
        << CommandSpec("commands", {"setup"}, FALSE, TRUE, TRUE, FALSE),
           CommandSpec("main", {}, TRUE, TRUE, FALSE, TRUE),
           PredicateDependency("paired", "both_or_neither", <<"commands", "main">>) >>)

\* The plugin objects of the run.  1 and 2 are two versions of "p1"; 3 shares
\* a component name with them under the same key; 4 and 5 fail validation
\* (5 under the name of 1 and 2); 6 holds a key the model does not declare.
Catalogue ==
    << AddAll(Plugin(HostModel, "p1", "1.0"),
              << <<"commands", Command(1, "a", "setup")>>,
                 <<"commands", Command(2, "b", "setup")>>,
                 <<"main", Command(3, "m", None)>> >>),
       AddAll(Plugin(HostModel, "p1", "2.0"),
              << <<"main", Command(4, "m", "extra")>>,
                 <<"commands", Command(5, "a", "setup")>> >>),
       AddAll(Plugin(HostModel, "p2", "1.0"),
              << <<"commands", Command(6, "a", "setup")>>,
                 <<"main", Command(7, "n", None)>> >>),
       AddAll(Plugin(HostModel, "p3", "1.0"),
              << <<"commands", Command(8, "d", "other")>> >>),
       AddAll(Plugin(HostModel, "p1", "3.0"),
              << <<"main", Command(9, "m", None)>>,
                 <<"main", Command(10, "n", None)>> >>),
       AddAll(Plugin(HostModel, "p4", "1.0"),
              << <<"commands", Command(11, "a", "setup")>>,
                 <<"main", Command(12, "m", None)>>,
                 <<"extra", Command(13, "x", None)>> >>) >>

\* Arguments of the calls.
PluginNames == {"p1", "p2", "p3"}

GetKeys == {"commands", "nokey"}

GetNames == {None, "", "a", "zz"}

\* Most components the pool may hold in all; a register call that would
\* exceed it is not made.
MaxPool == 7

\* ------------------------------------------------------------------------
\* State: one PluginRegistry, one PluginModel, the Plugin objects under
\* validation with their PluginValidator, and the last call made
\* ------------------------------------------------------------------------
VARIABLES
    resolver,           \* registry.resolver.mode
    validator_type,     \* registry.validator_type: the validator class
    enable_by_default,  \* registry.enable_by_default
    plugins,            \* registry.plugins: name -> Plugin
    enabled,            \* registry.enabled: list of names
    components,         \* registry.components: key -> list of components
    model,              \* the host's PluginModel object
    objects,            \* the Plugin objects in memory, by reference
    validator,          \* the PluginValidator's findings, << >> before it exists
    extracted,          \* reference of the object extract() returned, 0 if none
    last                \* the last call: arguments and outcome

vars == <<resolver, validator_type, enable_by_default, plugins, enabled, components,
          model, objects, validator, extracted, last>>

\* The variables of the registry, of the model and of the validation.
registry_vars ==
    <<resolver, validator_type, enable_by_default, plugins, enabled, components>>

validation_vars == <<objects, validator, extracted>>

\* The registry object, as the methods see it.
Registry ==
    [resolver |-> resolver, validator_type |-> validator_type,
     enable_by_default |-> enable_by_default,
     plugins |-> plugins, enabled |-> enabled, components |-> components]

\* Number of components in a pool, over all its keys.
RECURSIVE PoolSize(_)
PoolSize(pool) ==
    IF pool = << >> THEN 0 ELSE Len(Head(pool).v) + PoolSize(Tail(pool))

\* The record of a call; `twice` tells that the call before it was the same
\* call with the same arguments.
Call(op, pid, key, name, enabled_only, exc, warned, result) ==
    [op |-> op, pid |-> pid, key |-> key, name |-> name,
     enabled_only |-> enabled_only, exc |-> exc, warned |-> warned,
     result |-> result,
     twice |-> /\ last.op = op /\ last.pid = pid /\ last.key = key
               /\ last.name = name /\ last.enabled_only = enabled_only]

\* The registry after construction.
RegistryInit ==
    /\ resolver \in MODES
    /\ validator_type \in ValidatorTypes
    /\ enable_by_default \in BOOLEAN
    /\ plugins = PluginRegistry(resolver, validator_type, enable_by_default).plugins
    /\ enabled = PluginRegistry(resolver, validator_type, enable_by_default).enabled
    /\ components = PluginRegistry(resolver, validator_type, enable_by_default).components

\* A registry with its default settings, on which no call is made.
RegistryIdle ==
    /\ resolver = "RAISE_ERROR"
    /\ validator_type = DefaultValidator
    /\ enable_by_default = TRUE
    /\ plugins = PluginRegistry(resolver, validator_type, enable_by_default).plugins
    /\ enabled = PluginRegistry(resolver, validator_type, enable_by_default).enabled
    /\ components = PluginRegistry(resolver, validator_type, enable_by_default).components

\* No plugin object is under validation.
NoValidation ==
    /\ objects = << >>
    /\ validator = << >>
    /\ extracted = 0

\* No call was made yet.
NoCall ==
    last = [op |-> "init", pid |-> 0, key |-> None, name |-> None,
            enabled_only |-> FALSE, exc |-> "none", warned |-> FALSE,
            result |-> << >>, twice |-> FALSE]

Init ==
    /\ RegistryInit
    /\ model = HostModel
    /\ NoValidation
    /\ NoCall

\* The registry after a call that returned or raised with outcome out.
Returns(out) ==
    /\ plugins' = out.reg.plugins
    /\ enabled' = out.reg.enabled
    /\ components' = out.reg.components
    /\ UNCHANGED <<resolver, validator_type, enable_by_default, model, validation_vars>>

\* registry.register(Catalogue[pid]), given its outcome out.
Registered(pid, out) ==
    /\ PoolSize(out.reg.components) <= MaxPool
    /\ Returns(out)
    /\ last' = Call("register", pid, None, Catalogue[pid].name, FALSE,
                    out.exc, out.warned, << >>)

\* registry.register(Catalogue[pid])
Register(pid) ==
    Registered(pid, PluginRegistry_register(Registry, Catalogue[pid]))

\* registry.enable(name) or registry.disable(name), given its outcome out.
Toggled(op, name, out) ==
    /\ Returns(out)
    /\ last' = Call(op, 0, None, name, FALSE, out.exc, FALSE, << >>)

\* registry.enable(name)
Enable(name) == Toggled("enable", name, PluginRegistry_enable(Registry, name))

\* registry.disable(name)
Disable(name) == Toggled("disable", name, PluginRegistry_disable(Registry, name))

\* registry.get(key, name, enabled_only)
Get(key, name, enabled_only) ==
    /\ last' = Call("get", 0, key, name, enabled_only, "none", FALSE,
                    PluginRegistry_get(Registry, key, name, enabled_only))
    /\ UNCHANGED <<registry_vars, model, validation_vars>>

Next ==
    \/ \E pid \in 1..Len(Catalogue) : Register(pid)
    \/ \E name \in PluginNames : Enable(name)
    \/ \E name \in PluginNames : Disable(name)
    \/ \E key \in GetKeys, name \in GetNames, enabled_only \in BOOLEAN :
          Get(key, name, enabled_only)

Spec == Init /\ [][Next]_vars

\* ------------------------------------------------------------------------
\* Unpacking: plugin objects are unpacked into the pool of a new registry
\* ------------------------------------------------------------------------
\* registry.unpack(Catalogue[pid]), given the registry it leaves.
Unpacks(pid, reg) ==
    /\ PoolSize(reg.components) <= MaxPool
    /\ Returns([reg |-> reg])
    /\ last' = Call("unpack", pid, None, Catalogue[pid].name, FALSE, "none", FALSE, << >>)

\* registry.unpack(Catalogue[pid])
Unpack(pid) == Unpacks(pid, PluginRegistry_unpack(Registry, Catalogue[pid]))

UnpackNext == \E pid \in 1..Len(Catalogue) : Unpack(pid)

UnpackSpec == Init /\ [][UnpackNext]_vars

\* ------------------------------------------------------------------------
\* Validation: a plugin is built with add and remove, validated, extracted,
\* and the extracted plugin is changed in its turn
\* ------------------------------------------------------------------------
\* A host model with one required field and nothing else.
BareModel ==
    DeclareAll(PluginModel("bare", "1.0"),
        << CommandSpec("commands", {"setup"}, FALSE, TRUE, TRUE, FALSE) >>)

\* A host model whose unique field admits one group only.
StrictModel ==
    DeclareAll(PluginModel("strict", "1.0"),
        << CommandSpec("commands", {"setup"}, FALSE, TRUE, TRUE, FALSE),
           CommandSpec("main", {"setup"}, FALSE, TRUE, FALSE, TRUE) >>)

ValidationModels == {HostModel, BareModel, StrictModel}

\* The component objects a plugin is built from, and the field keys and
\* component names the calls are made with.
Parts ==
    << Command(21, "a", "setup"), Command(22, "b", "other"), Command(23, "a", None) >>

PartKeys == {"commands", "main", "extra"}

PartNames == {None, "a", "b"}

\* Most components the plugin under validation may hold.
MaxComps == 3

\* Largest number of components of a plugin filled from shared objects.
MaxShared == 2

\* The component object part is in one of the collections of plugin.
Holds(plugin, part) ==
    \E i \in 1..Len(plugin.components) :
        \E j \in 1..Len(plugin.components[i].v) : plugin.components[i].v[j].id = part.id

ValidationInit ==
    /\ RegistryIdle
    /\ model \in ValidationModels
    /\ objects = << Plugin(model, "px", "1.0") >>
    /\ validator = << >>
    /\ extracted = 0
    /\ NoCall

\* add or remove on the plugin object at reference ref, given its outcome.
PluginChanged(ref, op, key, name, out) ==
    /\ objects' = [objects EXCEPT ![ref] = out.plugin]
    /\ last' = Call(op, ref, key, name, FALSE, out.exc, FALSE, << >>)
    /\ UNCHANGED <<registry_vars, model, validator, extracted>>

\* plugin.add(key, part), before the plugin is validated; a component object
\* is added to one place only.
PluginAdd(key, part) ==
    /\ validator = << >>
    /\ PoolSize(objects[1].components) < MaxComps
    /\ ~Holds(objects[1], part)
    /\ PluginChanged(1, "add", key, part.name, Plugin_add(objects[1], key, part))

\* plugin.remove(key, name), before the plugin is validated.
PluginRemove(key, name) ==
    /\ validator = << >>
    /\ PluginChanged(1, "remove", key, name, Plugin_remove(objects[1], key, name))

\* validator.validate(), given its outcome.
Validated(out) ==
    /\ validator' = out.validator
    /\ last' = Call("validate", 1, None, None, FALSE, out.exc, FALSE, out.ret)
    /\ UNCHANGED <<registry_vars, model, objects, extracted>>

\* validator = PluginValidator(plugin); validator.validate()
Validate ==
    /\ validator = << >>
    /\ Validated(PluginValidator_validate(PluginValidator(objects[1])))

\* validator.extract(), given its outcome.
Extracted(out) ==
    /\ objects' = out.objects
    /\ extracted' = out.ref
    /\ last' = Call("extract", 1, None, None, FALSE, out.exc, FALSE, out.ref)
    /\ UNCHANGED <<registry_vars, model, validator>>

\* validator.extract(), once, after validate().
Extract ==
    /\ validator # << >>
    /\ Len(objects) = 1
    /\ extracted = 0
    /\ Extracted(PluginValidator_extract([validator EXCEPT !.plugin = objects[1]],
                                         objects))

\* extracted.add(key, part), right after extract().
ExtractedAdd(key, part) ==
    /\ extracted # 0
    /\ last.op = "extract"
    /\ PluginChanged(extracted, "add", key, part.name,
                     Plugin_add(objects[extracted], key, part))

\* extracted.remove(key, name), right after extract().
ExtractedRemove(key, name) ==
    /\ extracted # 0
    /\ last.op = "extract"
    /\ PluginChanged(extracted, "remove", key, name,
                     Plugin_remove(objects[extracted], key, name))

ValidationNext ==
    \/ \E key \in PartKeys, i \in 1..Len(Parts) : PluginAdd(key, Parts[i])
    \/ \E key \in PartKeys, name \in PartNames : PluginRemove(key, name)
    \/ Validate
    \/ Extract
    \/ \E key \in PartKeys, i \in 1..Len(Parts) : ExtractedAdd(key, Parts[i])
    \/ \E key \in PartKeys, name \in PartNames : ExtractedRemove(key, name)

ValidationSpec == ValidationInit /\ [][ValidationNext]_vars

\* ------------------------------------------------------------------------
\* Declaration: specs are added to and removed from a plugin model, and the
\* model is filtered
\* ------------------------------------------------------------------------
\* The objects passed to add: field specs, dependency specs, two of each
\* under a name that a spec of the other kind has, a str, and a hook spec
\* under the name of another field spec.
SpecPool ==
    << CommandSpec("commands", {"setup"}, FALSE, TRUE, TRUE, FALSE),
       CommandSpec("main", {}, TRUE, TRUE, FALSE, TRUE),
       MetaDataSpec("meta", "str", TRUE, TRUE),
       PredicateDependency("paired", "both_or_neither", <<"commands", "main">>),
       PredicateDependency("main", "both_or_neither", <<"commands", "main">>),
       CommandSpec("paired", {}, TRUE, TRUE, FALSE, FALSE),
       [cls |-> "str", value |-> "not a spec"],
       HookSpec("meta", << [k |-> "a", v |-> "int"] >>, FALSE, FALSE, OneType("bool"),
                FALSE, TRUE) >>

\* Arguments of remove and filter.
SpecNames == {"commands", "main", "meta", "paired", "zz"}

Categories == <<None, "Command", "MetaData">>

OptionalBools == <<NoBool, Some(TRUE), Some(FALSE)>>

CustomFilters == <<None, "named_main", "nothing">>

\* Every combination <<category, unique, required, custom_filter>> of them.
FilterArguments ==
    [n \in 1..81 |->
        << Categories[((n - 1) \div 27) + 1],
           OptionalBools[(((n - 1) \div 9) % 3) + 1],
           OptionalBools[(((n - 1) \div 3) % 3) + 1],
           CustomFilters[((n - 1) % 3) + 1] >>]

ModelInit ==
    /\ RegistryIdle
    /\ model = PluginModel("host", "1.0")
    /\ NoValidation
    /\ NoCall

\* model.add(SpecPool[i]) or model.remove(name), given its outcome; name is
\* the name of the spec for add (None for an object that has none).
Declared(op, i, name, out) ==
    /\ model' = out.model
    /\ last' = Call(op, i, None, name, FALSE, out.exc, FALSE, << >>)
    /\ UNCHANGED <<registry_vars, validation_vars>>

\* model.add(SpecPool[i])
ModelAdd(i) ==
    Declared("model.add", i,
             IF "name" \in DOMAIN SpecPool[i] THEN SpecPool[i].name ELSE None,
             PluginModel_add(model, SpecPool[i]))

\* model.remove(name)
ModelRemove(name) == Declared("model.remove", 0, name, PluginModel_remove(model, name))

\* model.filter(category, unique, required, custom_filter), the arguments
\* being FilterArguments[n]
ModelFilter(n) ==
    /\ last' = Call("model.filter", n, None, None, FALSE, "none", FALSE,
                    PluginModel_filter(model, FilterArguments[n][1], FilterArguments[n][2],
                                       FilterArguments[n][3], FilterArguments[n][4]))
    /\ UNCHANGED <<registry_vars, model, validation_vars>>

ModelNext ==
    \/ \E i \in 1..Len(SpecPool) : ModelAdd(i)
    \/ \E name \in SpecNames : ModelRemove(name)
    \/ \E n \in 1..Len(FilterArguments) : ModelFilter(n)

ModelSpec == ModelInit /\ [][ModelNext]_vars

\* ------------------------------------------------------------------------
\* Creation: two plugins are filled from the same component objects, and
\* dependencies are validated on them
\* ------------------------------------------------------------------------
\* The component objects; `id` is the reference of the object in memory. Two
\* of them have the same name, and one has a group the host model refuses.
Shared ==
    << Command(3, "a", "other"), Command(4, "b", None), Command(5, "a", None) >>

\* References of the two plugins and of the component objects.
Owners == {1, 2}

SharedRefs == {2 + i : i \in 1..Len(Shared)}

FieldKeys == {"commands", "main"}

\* The calls of add: the first plugin is filled under both keys, the second
\* under one.
Additions == {<<1, "commands">>, <<1, "main">>, <<2, "commands">>}

\* Dependencies validated on the plugins: on two fields, on one field named
\* twice, on a field no plugin has, and on no field.
Dependencies ==
    << PredicateDependency("paired", "both_or_neither", <<"commands", "main">>),
       PredicateDependency("twice", "both_or_neither", <<"commands", "commands">>),
       PredicateDependency("absent", "both_or_neither", <<"commands", "assets">>),
       PredicateDependency("bare", "both_or_neither", << >>) >>

CreationInit ==
    /\ RegistryIdle
    /\ model = HostModel
    /\ objects = << Plugin(HostModel, "px", "1.0"), Plugin(HostModel, "py", "1.0") >>
                    \o Shared
    /\ validator = << >>
    /\ extracted = 0
    /\ NoCall

\* objects[ref].add(key, objects[cref]), given its outcome.
Added(ref, key, cref, out) ==
    /\ objects' = out.objects
    /\ last' = Call("plugin.add", ref, key, objects[cref].name, FALSE, out.exc, FALSE, cref)
    /\ UNCHANGED <<registry_vars, model, validator, extracted>>

\* objects[ref].add(key, objects[cref])
Add(ref, key, cref) ==
    /\ PoolSize(objects[ref].components) < MaxShared
    /\ Added(ref, key, cref, add_in(objects, ref, key, cref))

\* objects[ref].remove(key, name), given its outcome.
Removed(ref, key, name, out) ==
    /\ objects' = out.objects
    /\ last' = Call("plugin.remove", ref, key, name, FALSE, out.exc, FALSE, << >>)
    /\ UNCHANGED <<registry_vars, model, validator, extracted>>

\* objects[ref].remove(key, name)
Remove(ref, key, name) == Removed(ref, key, name, remove_in(objects, ref, key, name))

\* Dependencies[d].validate(objects[ref])
DependencyValidate(d, ref) ==
    /\ last' = Call("dependency.validate", ref, None, Dependencies[d].name, FALSE,
                    PredicateDependency_validate(Dependencies[d], objects[ref]).exc, FALSE,
                    PredicateDependency_validate(Dependencies[d], objects[ref]))
    /\ UNCHANGED <<registry_vars, model, validation_vars>>

CreationNext ==
    \/ \E to \in Additions, cref \in SharedRefs : Add(to[1], to[2], cref)
    \/ \E key \in FieldKeys, name \in PartNames : Remove(1, key, name)
    \/ \E d \in 1..Len(Dependencies), ref \in Owners : DependencyValidate(d, ref)

CreationSpec == CreationInit /\ [][CreationNext]_vars

\* ------------------------------------------------------------------------
\* Checks: the checks of a validator are called one by one and in any order,
\* validate() is called twice, and the extracted plugin is validated
\* ------------------------------------------------------------------------
\* Keys of the plugin under validation: the two fields of the host model,
\* of which the second is the name of no spec of the bare model, and the
\* name of the dependency of the host model.
CheckKeys == {"commands", "main", "paired"}

\* The orders in which the five checks are called.
Orders ==
    {order \in [1..Len(Checks) -> Range(Checks)] :
        \A i, j \in 1..Len(Checks) : order[i] = order[j] => i = j}

\* The plugin is new or was just changed by add or remove, and no validator
\* was made for it yet. A validator made for a check call is dropped after
\* the call, so that a check call leaves nothing that another could see.
Built ==
    /\ validator = << >>
    /\ last.op \in {"init", "add", "remove"}
    /\ last.exc = "none"

\* PluginValidator(plugin).<name>(), on a new validator.
Check(name) ==
    /\ Built
    /\ last' = Call("check", 1, None, name, FALSE,
                    call_check(PluginValidator(objects[1]), name).exc, FALSE,
                    call_check(PluginValidator(objects[1]), name))
    /\ UNCHANGED <<registry_vars, model, validation_vars>>

\* v = PluginValidator(plugin); for name in order: getattr(v, name)()
CheckInOrder(order) ==
    /\ Built
    /\ last' = Call("checks", 1, None, None, FALSE,
                    call_checks(PluginValidator(objects[1]), order).exc, FALSE,
                    call_checks(PluginValidator(objects[1]), order))
    /\ UNCHANGED <<registry_vars, model, validation_vars>>

\* validator.validate() a second time, right after the first.
ValidateAgain ==
    /\ validator # << >>
    /\ last.op = "validate"
    /\ ~last.twice
    /\ Validated(validate_again(validator))

\* PluginValidator(extracted).validate(), on the plugin extract() returned.
Revalidate ==
    /\ extracted # 0
    /\ last' = Call("revalidate", extracted, None, None, FALSE,
                    PluginValidator_validate(PluginValidator(objects[extracted])).exc,
                    FALSE,
                    PluginValidator_validate(PluginValidator(objects[extracted])).validator)
    /\ UNCHANGED <<registry_vars, model, validation_vars>>

ChecksNext ==
    \/ \E key \in CheckKeys, i \in 1..Len(Parts) : PluginAdd(key, Parts[i])
    \/ \E key \in CheckKeys, name \in PartNames : PluginRemove(key, name)
    \/ \E name \in Range(Checks) : Check(name)
    \/ \E order \in Orders : CheckInOrder(order)
    \/ Validate
    \/ ValidateAgain
    \/ Extract
    \/ Revalidate

ChecksSpec == ValidationInit /\ [][ChecksNext]_vars

\* ------------------------------------------------------------------------
\* Field rules: command specs and hook specs validate single components
\* ------------------------------------------------------------------------
\* The command specs, for each allowed-groups set and each value of
\* admits_new_groups and admits_top_level, and the commands, top-level, in
\* the allowed group and in another group.
GroupSets == << {"setup"}, {} >>

CommandGroups == << None, "setup", "other" >>

\* The n-th pair of a command spec and a command, n in 1..24.
CommandCase(n) ==
    [spec |-> CommandSpec("commands", GroupSets[((n - 1) \div 12) + 1],
                          ((n - 1) \div 2) % 2 = 0, (n - 1) % 2 = 0, FALSE, FALSE),
     comp |-> Command(n, "c", CommandGroups[(((n - 1) \div 4) % 3) + 1])]

CommandCases == Len(GroupSets) * Len(CommandGroups) * 4

\* inspect.Parameter of a function
Param(name, kind, annotation) == [name |-> name, kind |-> kind, annotation |-> annotation]

Positional(name, annotation) == Param(name, "POSITIONAL_OR_KEYWORD", annotation)

\* The functions of the hooks: the declared signature, then parameters
\* swapped, of a derived type, of another type, not annotated, one more, one
\* fewer, none, a keyword-only one more, *args, **kwargs, both, and other
\* return annotations.
HookFuncs ==
    << [parameters |-> << Positional("a", "int"), Positional("b", "str") >>,
        return_annotation |-> "bool"],
       [parameters |-> << Positional("b", "str"), Positional("a", "int") >>,
        return_annotation |-> "bool"],
       [parameters |-> << Positional("a", "bool"), Positional("b", "str") >>,
        return_annotation |-> "bool"],
       [parameters |-> << Positional("a", "float"), Positional("b", "str") >>,
        return_annotation |-> "bool"],
       [parameters |-> << Positional("a", "empty"), Positional("b", "empty") >>,
        return_annotation |-> "bool"],
       [parameters |-> << Positional("a", "int"), Positional("b", "str"),
                          Positional("extra", "float") >>,
        return_annotation |-> "bool"],
       [parameters |-> << Positional("a", "int") >>,
        return_annotation |-> "bool"],
       [parameters |-> << >>,
        return_annotation |-> "bool"],
       [parameters |-> << Positional("a", "int"), Positional("b", "str"),
                          Param("c", "KEYWORD_ONLY", "int") >>,
        return_annotation |-> "bool"],
       [parameters |-> << Positional("a", "int"), Positional("b", "str"),
                          Param("args", "VAR_POSITIONAL", "empty") >>,
        return_annotation |-> "bool"],
       [parameters |-> << Positional("a", "int"), Positional("b", "str"),
                          Param("kwargs", "VAR_KEYWORD", "empty") >>,
        return_annotation |-> "bool"],
       [parameters |-> << Positional("a", "int"), Positional("b", "str"),
                          Param("args", "VAR_POSITIONAL", "empty"),
                          Param("kwargs", "VAR_KEYWORD", "empty") >>,
        return_annotation |-> "bool"],
       [parameters |-> << Positional("a", "int"), Positional("b", "str") >>,
        return_annotation |-> "int"],
       [parameters |-> << Positional("a", "int"), Positional("b", "str") >>,
        return_annotation |-> None],
       [parameters |-> << Positional("a", "int"), Positional("b", "str") >>,
        return_annotation |-> "empty"] >>

\* The declared signature {"a": int, "b": str} and variants of the spec.
Declared_ab == << [k |-> "a", v |-> "int"], [k |-> "b", v |-> "str"] >>

HookSpecs ==
    << HookSpec("on_event", Declared_ab, FALSE, FALSE, OneType("bool"), FALSE, TRUE),
       HookSpec("on_event", Declared_ab, TRUE, TRUE, OneType("bool"), FALSE, TRUE),
       HookSpec("on_event", << [k |-> "a", v |-> "Any"], [k |-> "b", v |-> "str"] >>,
                FALSE, FALSE, OneType("bool"), FALSE, TRUE),
       HookSpec("on_event", DictEmpty, FALSE, FALSE, OneType("bool"), FALSE, TRUE),
       HookSpec("on_event", Declared_ab, FALSE, FALSE, OneType(None), FALSE, TRUE),
       HookSpec("on_event", Declared_ab, FALSE, FALSE, OneType("Any"), FALSE, TRUE),
       HookSpec("on_event", Declared_ab, FALSE, FALSE, TupleOf(<<"bool", "int">>),
                FALSE, TRUE) >>

\* The n-th pair of a hook spec and a hook.
HookCase(n) ==
    [spec |-> HookSpecs[((n - 1) \div Len(HookFuncs)) + 1],
     obj |-> Hook(n, "h", HookFuncs[((n - 1) % Len(HookFuncs)) + 1])]

HookCases == Len(HookSpecs) * Len(HookFuncs)

RuleInit ==
    /\ RegistryIdle
    /\ model = HostModel
    /\ NoValidation
    /\ NoCall

\* CommandCase(n).spec.validate(CommandCase(n).comp)
CommandValidate(n) ==
    /\ last' = Call("command.validate", n, None, None, FALSE, "none", FALSE,
                    CommandSpec_validate(CommandCase(n).spec, CommandCase(n).comp))
    /\ UNCHANGED <<registry_vars, model, validation_vars>>

\* HookCase(n).spec.validate(HookCase(n).obj)
HookValidate(n) ==
    /\ last' = Call("hook.validate", n, None, None, FALSE,
                    HookSpec_validate(HookCase(n).spec, HookCase(n).obj).exc, FALSE,
                    HookSpec_validate(HookCase(n).spec, HookCase(n).obj).ret)
    /\ UNCHANGED <<registry_vars, model, validation_vars>>

RuleNext ==
    \/ \E n \in 1..CommandCases : CommandValidate(n)
    \/ \E n \in 1..HookCases : HookValidate(n)

RuleSpec == RuleInit /\ [][RuleNext]_vars

\* ------------------------------------------------------------------------
\* Properties of the registry
\* ------------------------------------------------------------------------
\* The verdict of the registry's validator on the pid-th plugin object.
Verdict(pid) == validator_type_validate(Registry, Catalogue[pid])

\* The plugin is valid / invalid for the registry: validate() of the
\* validator it builds returned True / returned False (it did not raise).
Valid(pid) == Verdict(pid).exc = "none" /\ Verdict(pid).ret

Invalid(pid) == Verdict(pid).exc = "none" /\ ~Verdict(pid).ret

\* The pool's collection under key, empty when key is not a key of the pool.
PoolAt(pool, key) == IF DictHas(pool, key) THEN DictGet(pool, key) ELSE << >>

\* Every field key in use.
AllKeys ==
    GetKeys \cup UNION {DictKeySet(Catalogue[i].components) : i \in 1..Len(Catalogue)}

IsPrefix(s, t) == Len(s) <= Len(t) /\ SubSeq(t, 1, Len(s)) = s

Count(s, x) == Cardinality({i \in 1..Len(s) : s[i] = x})

\* pool2 is pool1 with every collection of plugin appended under its key.
Unpacked(pool1, pool2, plugin) ==
    /\ DictKeySet(pool2) = DictKeySet(pool1) \cup DictKeySet(plugin.components)
    /\ \A key \in AllKeys :
          PoolAt(pool2, key) = PoolAt(pool1, key) \o Plugin_get(plugin, key)

\* C1: register(plugin) with a plugin whose validate() returns False raises
\* ValueError and leaves plugins, components and enabled as they were, so
\* that every later register call has the outcome it would have had without
\* the failed call.
C1_InvalidRegisterChangesNothing ==
    [][ (last'.op = "register" /\ Invalid(last'.pid))
        => /\ last'.exc = "ValueError"
           /\ plugins' = plugins
           /\ components' = components
           /\ enabled' = enabled
           /\ \A q \in 1..Len(Catalogue) :
                 PluginRegistry_register(Registry', Catalogue[q])
                    = PluginRegistry_register(Registry, Catalogue[q]) ]_vars

\* An invalid plugin was just refused by a registry that holds plugins.
C1_Witness ==
    /\ last.op = "register"
    /\ Invalid(last.pid)
    /\ last.exc = "ValueError"
    /\ plugins # DictEmpty
    /\ components # DictEmpty

\* C2: register(plugin) with a valid plugin whose name is not registered
\* stores the plugin under its name, appends each of its collections to the
\* pool under the same key, and adds the name to enabled if and only if
\* enable_by_default is true (enabled is unchanged when it is false).
C2_RegisterStoresUnpacksEnables ==
    [][ (last'.op = "register" /\ Valid(last'.pid) /\ ~DictHas(plugins, last'.name))
        => /\ last'.exc = "none"
           /\ DictKeySet(plugins') = DictKeySet(plugins) \cup {last'.name}
           /\ DictGet(plugins', last'.name) = Catalogue[last'.pid]
           /\ Unpacked(components, components', Catalogue[last'.pid])
           /\ (last'.name \in Range(enabled')) <=> enable_by_default
           /\ enable_by_default => enabled' = Append(enabled, last'.name)
           /\ ~enable_by_default => enabled' = enabled ]_vars

\* A valid plugin was just registered next to another one, without being
\* enabled.
C2_Witness ==
    /\ last.op = "register"
    /\ last.exc = "none"
    /\ ~last.warned
    /\ ~enable_by_default
    /\ Len(plugins) = 2
    /\ DictGet(plugins, last.name) = Catalogue[last.pid]
    /\ enabled # << >>

\* C3: under OVERRIDE, register(plugin) with a valid plugin whose name is
\* already registered emits a UserWarning, makes plugins[name] the new
\* plugin object and unpacks the new plugin's components into the pool.
C3_OverrideReplacesAndUnpacks ==
    [][ (/\ last'.op = "register" /\ Valid(last'.pid)
         /\ resolver = "OVERRIDE" /\ DictHas(plugins, last'.name))
        => /\ last'.exc = "none"
           /\ last'.warned
           /\ DictKeySet(plugins') = DictKeySet(plugins)
           /\ DictGet(plugins', last'.name) = Catalogue[last'.pid]
           /\ Unpacked(components, components', Catalogue[last'.pid]) ]_vars

\* A second version of a plugin has just replaced the first: the stored
\* object is the new one and the pool holds a component of the old one.
C3_Witness ==
    /\ last.op = "register"
    /\ resolver = "OVERRIDE"
    /\ last.warned
    /\ DictGet(plugins, last.name) = Catalogue[last.pid]
    /\ \E key \in DictKeySet(components) :
          \E i \in 1..Len(DictGet(components, key)) :
             /\ DictGet(components, key)[i].plugin = last.name
             /\ DictGet(components, key)[i]
                   \notin Range(Plugin_get(Catalogue[last.pid], key))

\* C4: under IGNORE, register(plugin) with a valid plugin whose name is
\* already registered emits a UserWarning, raises nothing and leaves plugins,
\* components and enabled unchanged.
C4_IgnoreKeepsTheFirst ==
    [][ (/\ last'.op = "register" /\ Valid(last'.pid)
         /\ resolver = "IGNORE" /\ DictHas(plugins, last'.name))
        => /\ last'.exc = "none"
           /\ last'.warned
           /\ plugins' = plugins
           /\ components' = components
           /\ enabled' = enabled ]_vars

\* A second version of a registered plugin was just declined.
C4_Witness ==
    /\ last.op = "register"
    /\ resolver = "IGNORE"
    /\ last.warned
    /\ last.exc = "none"
    /\ DictGet(plugins, last.name) # Catalogue[last.pid]

\* C5: under RAISE_ERROR, register(plugin) with a valid plugin whose name is
\* already registered raises ValueError and leaves plugins, components and
\* enabled unchanged.
C5_RaiseErrorRefusesTheSecond ==
    [][ (/\ last'.op = "register" /\ Valid(last'.pid)
         /\ resolver = "RAISE_ERROR" /\ DictHas(plugins, last'.name))
        => /\ last'.exc = "ValueError"
           /\ ~last'.warned
           /\ plugins' = plugins
           /\ components' = components
           /\ enabled' = enabled ]_vars

\* A valid second version of a registered plugin was just refused.
C5_Witness ==
    /\ last.op = "register"
    /\ resolver = "RAISE_ERROR"
    /\ Valid(last.pid)
    /\ last.exc = "ValueError"
    /\ DictGet(plugins, last.name) # Catalogue[last.pid]

\* What get is to return: the components pooled under key, in pool order,
\* of the given name if a name is given, of an enabled plugin if asked so.
GetExpected(pool, on, key, name, enabled_only) ==
    SelectSeq(PoolAt(pool, key),
              LAMBDA c : /\ (name = None \/ c.name = name)
                         /\ (~enabled_only \/ c.plugin \in Range(on)))

\* C6: get(key, name, enabled_only) returns exactly, in pool order, the
\* components c pooled under key with (name not given or c.name = name) and
\* (not enabled_only or c.plugin in enabled); it returns an empty list for a
\* key that is not in the pool; it changes none of plugins, components and
\* enabled.
C6_GetReturnsTheMatchingComponents ==
    [][ last'.op = "get"
        => /\ last'.result = GetExpected(components, enabled, last'.key,
                                         last'.name, last'.enabled_only)
           /\ (~DictHas(components, last'.key) => last'.result = << >>)
           /\ plugins' = plugins
           /\ components' = components
           /\ enabled' = enabled ]_vars

\* C7: enable(name) raises AttributeError and changes nothing when name is
\* not registered; when it is, name is in enabled afterwards and plugins and
\* components are unchanged.
C7_EnableNeedsARegisteredPlugin ==
    [][ last'.op = "enable"
        => IF ~DictHas(plugins, last'.name)
           THEN /\ last'.exc = "AttributeError"
                /\ plugins' = plugins
                /\ components' = components
                /\ enabled' = enabled
           ELSE /\ last'.exc = "none"
                /\ last'.name \in Range(enabled')
                /\ plugins' = plugins
                /\ components' = components ]_vars

\* enable was just refused for an unregistered name, by a registry that has
\* plugins registered and enabled.
C7_Witness ==
    /\ last.op = "enable"
    /\ last.exc = "AttributeError"
    /\ ~DictHas(plugins, last.name)
    /\ plugins # DictEmpty
    /\ enabled # << >>

\* C8: enable is idempotent: a second enable(name) right after a successful
\* enable(name) leaves enabled as the first call left it, with name in it
\* exactly once.
C8_EnableIsIdempotent ==
    [][ (last'.op = "enable" /\ last'.twice /\ last.exc = "none")
        => /\ last'.exc = "none"
           /\ enabled' = enabled
           /\ Count(enabled', last'.name) = 1 ]_vars

\* enable(name) was just called a second time in a row, another plugin being
\* enabled too.
C8_Witness ==
    /\ last.op = "enable"
    /\ last.twice
    /\ last.exc = "none"
    /\ Len(enabled) = 2

\* C9: disable(name) never raises; it removes name from enabled if it is
\* there and changes nothing otherwise, whether name is registered or not;
\* plugins and components are unchanged in every case.
C9_DisableOnlyTouchesEnabled ==
    [][ last'.op = "disable"
        => /\ last'.exc = "none"
           /\ last'.name \notin Range(enabled')
           /\ enabled' = SelectSeq(enabled, LAMBDA n : n # last'.name)
           /\ (last'.name \notin Range(enabled) => enabled' = enabled)
           /\ plugins' = plugins
           /\ components' = components ]_vars

\* A registered plugin is disabled while another one stays enabled, its
\* components still in the pool.
C9_Witness ==
    /\ last.op = "disable"
    /\ last.exc = "none"
    /\ DictHas(plugins, last.name)
    /\ last.name \notin Range(enabled)
    /\ enabled # << >>
    /\ \E key \in DictKeySet(components) :
          \E i \in 1..Len(DictGet(components, key)) :
             DictGet(components, key)[i].plugin = last.name

\* C10: there is no deregistered state: no call removes a name from the keys
\* of plugins, and no call removes a component from the pool: every pool
\* entry stays, and only grows at its end.
C10_NothingIsEverDeregistered ==
    [][ /\ DictKeySet(plugins) \subseteq DictKeySet(plugins')
        /\ \A key \in DictKeySet(components) :
              /\ DictHas(components', key)
              /\ IsPrefix(DictGet(components, key), DictGet(components', key)) ]_vars

\* Two plugins are registered, both were enabled and are now disabled, and
\* the pool holds the components of both.
C10_Witness ==
    /\ last.op = "disable"
    /\ enable_by_default
    /\ enabled = << >>
    /\ Len(plugins) = 2
    /\ PoolSize(components) >= 4

\* ------------------------------------------------------------------------
\* Properties of the validator
\* ------------------------------------------------------------------------
\* The five finding collections of validator v are all empty.
FindingsEmpty(v) ==
    /\ v.missing = << >>
    /\ v.unknown = << >>
    /\ v.not_unique = << >>
    /\ v.invalid = DictEmpty
    /\ v.deps_unsatisfied = << >>

\* The names of the fields model m marks required.
RequiredFields(m) == {m.fields[i].k : i \in {j \in 1..Len(m.fields) : m.fields[j].v.required}}

\* C11: when validate() returns, it returns True if and only if, after the
\* call, missing, unknown, not_unique, invalid and deps_unsatisfied are all
\* empty.
C11_ValidateTrueIffNoFinding ==
    [][ (last'.op = "validate" /\ last'.exc = "none")
        => ((last'.result = TRUE) <=> FindingsEmpty(validator')) ]_vars

\* validate() just returned False for a plugin whose only finding is an
\* unsatisfied dependency.
C11_Witness ==
    /\ last.op = "validate"
    /\ last.exc = "none"
    /\ last.result = FALSE
    /\ validator.deps_unsatisfied # << >>
    /\ validator.missing = << >>
    /\ validator.unknown = << >>
    /\ validator.not_unique = << >>
    /\ validator.invalid = DictEmpty

\* C12: validate() never raises: for every plugin, one that holds components
\* under a key the model does not declare included, it completes and returns
\* a boolean.
C12_ValidateNeverRaises ==
    [][ last'.op = "validate"
        => /\ last'.exc = "none"
           /\ last'.result \in BOOLEAN ]_vars

\* C13: whenever validate() returns True, every field the model marks
\* required holds at least one component in the plugin, also when the plugin
\* was built by adding a component under the field and removing it by name.
C13_RequiredMeansAtLeastOne ==
    [][ (last'.op = "validate" /\ last'.exc = "none" /\ last'.result = TRUE)
        => \A field \in RequiredFields(model) :
              Len(Plugin_get(objects[1], field)) >= 1 ]_vars

\* C14: after validate(), extract() returns a plugin whose keys are the
\* original keys minus the keys flagged invalid minus the keys flagged
\* unknown, in which every key flagged not-unique holds exactly its first
\* component and every other key holds its original components in order.
C14_ExtractDropsAndTruncates ==
    [][ last'.op = "extract"
        => /\ last'.exc = "none"
           /\ extracted' # 0
           /\ DictKeySet(objects'[extracted'].components)
                 = (DictKeySet(objects[1].components) \ DictKeySet(validator.invalid))
                      \ Range(validator.unknown)
           /\ \A key \in DictKeySet(objects'[extracted'].components) :
                 DictGet(objects'[extracted'].components, key)
                    = IF key \in Range(validator.not_unique)
                      THEN << DictGet(objects[1].components, key)[1] >>
                      ELSE DictGet(objects[1].components, key) ]_vars

\* C15: extract() works on an independent copy: the validated plugin's
\* components are after extract() what they were before, the plugin
\* returned is another object, and a change made to the returned plugin
\* leaves the validated plugin as it was.
C15_ExtractLeavesTheOriginalAlone ==
    [][ /\ last'.op = "extract"
           => /\ objects'[1] = objects[1]
              /\ extracted' # 1
        /\ (last'.op \in {"add", "remove"} /\ extracted # 0 /\ last'.pid = extracted)
           => objects'[1] = objects[1] ]_vars

\* A component was just added to the plugin extract() returned, from which
\* extract() had dropped an invalid field that the validated plugin still
\* holds.
C15_Witness ==
    /\ last.op = "add"
    /\ last.exc = "none"
    /\ extracted # 0
    /\ last.pid = extracted
    /\ validator.invalid # DictEmpty
    /\ \E key \in DictKeySet(validator.invalid) :
          /\ DictHas(objects[1].components, key)
          /\ ~DictHas(objects[extracted].components, key)

\* ------------------------------------------------------------------------
\* Properties of unpack
\* ------------------------------------------------------------------------
\* C16: unpack(plugin) appends, for every key of the plugin, all the
\* plugin's components under that key to the pool entry of the same key
\* (created if absent), dropping and de-duplicating nothing: every pool entry
\* grows by the number of components the plugin holds under its key, whether
\* or not their names are pooled already; the entries of keys the plugin does
\* not provide, plugins and enabled are unchanged.
C16_UnpackAppendsEverything ==
    [][ last'.op = "unpack"
        => /\ Unpacked(components, components', Catalogue[last'.pid])
           /\ \A key \in AllKeys :
                 /\ Len(PoolAt(components', key))
                       = Len(PoolAt(components, key))
                            + Len(Plugin_get(Catalogue[last'.pid], key))
                 /\ ~DictHas(Catalogue[last'.pid].components, key)
                       => /\ DictHas(components', key) <=> DictHas(components, key)
                          /\ PoolAt(components', key) = PoolAt(components, key)
           /\ plugins' = plugins
           /\ enabled' = enabled ]_vars

\* Two plugins that both provide a command named "a" were unpacked: the
\* pool entry holds the components of both, the two "a" included.
C16_Witness ==
    /\ last.op = "unpack"
    /\ DictHas(components, "commands")
    /\ Len(DictGet(components, "commands")) = 3
    /\ \E i, j \in 1..3 :
          /\ i < j
          /\ DictGet(components, "commands")[i].name = "a"
          /\ DictGet(components, "commands")[j].name = "a"
          /\ DictGet(components, "commands")[i].plugin = "p1"
          /\ DictGet(components, "commands")[j].plugin = "p2"

\* ------------------------------------------------------------------------
\* Properties of the plugin model
\* ------------------------------------------------------------------------
\* Dictionary d2 is d1 with val stored under the new key.
Stored(d1, d2, key, val) ==
    /\ DictKeySet(d2) = DictKeySet(d1) \cup {key}
    /\ Len(d2) = Len(d1) + 1
    /\ DictGet(d2, key) = val
    /\ \A k \in DictKeySet(d1) : DictGet(d2, k) = DictGet(d1, k)

\* Dictionary d2 is d1 without key, every other entry in place.
Deleted(d1, d2, key) ==
    /\ DictKeySet(d2) = DictKeySet(d1) \ {key}
    /\ Len(d2) = Len(d1) - 1
    /\ \A k \in DictKeySet(d2) : DictGet(d2, k) = DictGet(d1, k)

\* C17: add(spec) raises TypeError for an object that is neither a FieldSpec
\* nor a DependencySpec and KeyError when spec.name is a key of fields or of
\* dependencies, leaving both maps unchanged in both cases; otherwise it
\* stores a FieldSpec under its name in fields and a DependencySpec in
\* dependencies, and leaves the other map unchanged.
C17_AddRoutesOrRefuses ==
    [][ last'.op = "model.add"
        => IF SpecPool[last'.pid].cls \notin FieldSpecClasses \cup DependencySpecClasses
           THEN /\ last'.exc = "TypeError"
                /\ model' = model
           ELSE IF last'.name \in DictKeySet(model.fields) \cup DictKeySet(model.dependencies)
           THEN /\ last'.exc = "KeyError"
                /\ model' = model
           ELSE IF SpecPool[last'.pid].cls \in FieldSpecClasses
           THEN /\ last'.exc = "none"
                /\ Stored(model.fields, model'.fields, last'.name, SpecPool[last'.pid])
                /\ model'.dependencies = model.dependencies
           ELSE /\ last'.exc = "none"
                /\ Stored(model.dependencies, model'.dependencies, last'.name,
                          SpecPool[last'.pid])
                /\ model'.fields = model.fields ]_vars

\* A field spec was just refused because a dependency spec has its name.
C17_Witness ==
    /\ last.op = "model.add"
    /\ last.exc = "KeyError"
    /\ SpecPool[last.pid].cls \in FieldSpecClasses
    /\ DictHas(model.dependencies, last.name)
    /\ model.fields # DictEmpty

\* C18: after any sequence of add and remove calls, the key sets of fields
\* and dependencies are disjoint and specs has exactly the keys of both.
C18_FieldsAndDependenciesDisjoint ==
    /\ DictKeySet(model.fields) \cap DictKeySet(model.dependencies) = {}
    /\ DictKeySet(PluginModel_specs(model))
          = DictKeySet(model.fields) \cup DictKeySet(model.dependencies)
    /\ Len(PluginModel_specs(model)) = Len(model.fields) + Len(model.dependencies)

\* The model holds two field specs and a dependency spec, and the add of a
\* dependency spec under the name of one of the field specs was just refused.
C18_Witness ==
    /\ last.op = "model.add"
    /\ last.exc = "KeyError"
    /\ SpecPool[last.pid].cls \in DependencySpecClasses
    /\ DictHas(model.fields, last.name)
    /\ model.dependencies # DictEmpty
    /\ Len(model.fields) = 2

\* C19: remove(name) deletes the spec called name from the map that holds
\* it and leaves every other spec in place; it raises KeyError and changes
\* nothing when no map holds name; right after a successful add(spec),
\* remove(spec.name) takes the name out again and keeps every other key.
C19_RemoveDeletesOrRefuses ==
    [][ last'.op = "model.remove"
        => /\ IF DictHas(model.fields, last'.name)
              THEN /\ last'.exc = "none"
                   /\ Deleted(model.fields, model'.fields, last'.name)
                   /\ model'.dependencies = model.dependencies
              ELSE IF DictHas(model.dependencies, last'.name)
              THEN /\ last'.exc = "none"
                   /\ Deleted(model.dependencies, model'.dependencies, last'.name)
                   /\ model'.fields = model.fields
              ELSE /\ last'.exc = "KeyError"
                   /\ model' = model
           /\ (last.op = "model.add" /\ last.exc = "none" /\ last.name = last'.name)
                 => /\ last'.exc = "none"
                    /\ DictKeySet(model'.fields) = DictKeySet(model.fields) \ {last'.name}
                    /\ DictKeySet(model'.dependencies)
                          = DictKeySet(model.dependencies) \ {last'.name}
                    /\ Len(model'.fields) + Len(model'.dependencies)
                          = Len(model.fields) + Len(model.dependencies) - 1 ]_vars

\* The dependency spec that was just added was removed again, the field
\* specs staying.
C19_Witness ==
    /\ last.op = "model.remove"
    /\ last.exc = "none"
    /\ last.name = "paired"
    /\ model.dependencies = DictEmpty
    /\ Len(model.fields) = 2

\* C20: filter(category, unique, required, custom_filter) returns exactly
\* the specs of fields, in their order, that meet every criterion given (a
\* None criterion does not constrain; category is compared with the spec's
\* component type); it returns no dependency spec and does not change the
\* model.
C20_FilterReturnsTheMatchingFields ==
    [][ last'.op = "model.filter"
        => /\ DictKeySet(last'.result)
                 = {k \in DictKeySet(model.fields) :
                       /\ FilterArguments[last'.pid][1] # None
                             => DictGet(model.fields, k).COMPONENT_TYPE
                                   = FilterArguments[last'.pid][1]
                       /\ FilterArguments[last'.pid][2] # NoBool
                             => DictGet(model.fields, k).unique
                                   = FilterArguments[last'.pid][2][1]
                       /\ FilterArguments[last'.pid][3] # NoBool
                             => DictGet(model.fields, k).required
                                   = FilterArguments[last'.pid][3][1]
                       /\ FilterArguments[last'.pid][4] # None
                             => ApplyFilter(FilterArguments[last'.pid][4],
                                            DictGet(model.fields, k))}
           /\ \A i \in 1..Len(last'.result) :
                 /\ last'.result[i] \in Range(model.fields)
                 /\ last'.result[i].v.cls \in FieldSpecClasses
                 /\ \A j \in 1..Len(last'.result) :
                       i < j => DictIndex(model.fields, last'.result[i].k)
                                   < DictIndex(model.fields, last'.result[j].k)
           /\ model' = model ]_vars

\* A model with three field specs and a dependency spec was just filtered
\* for its required fields, and one field spec of two categories came back.
C20_Witness ==
    /\ last.op = "model.filter"
    /\ FilterArguments[last.pid] = <<None, NoBool, Some(TRUE), None>>
    /\ Len(model.fields) = 3
    /\ model.dependencies # DictEmpty
    /\ Len(last.result) = 2
    /\ last.result[1].v.COMPONENT_TYPE # last.result[2].v.COMPONENT_TYPE

\* ------------------------------------------------------------------------
\* Properties of plugin creation
\* ------------------------------------------------------------------------
\* The references of the component objects a plugin holds, key by key.
Held(plugin) ==
    [i \in 1..Len(plugin.components) |->
        [k |-> plugin.components[i].k,
         v |-> [j \in 1..Len(plugin.components[i].v) |-> plugin.components[i].v[j].id]]]

\* The references of the component objects a plugin holds under key.
HeldUnder(plugin, key) ==
    [j \in 1..Len(Plugin_get(plugin, key)) |-> Plugin_get(plugin, key)[j].id]

\* A component called name is stored under key.
HasNamed(plugin, key, name) ==
    \E j \in 1..Len(Plugin_get(plugin, key)) : Plugin_get(plugin, key)[j].name = name

\* C21: add(key, component) raises AttributeError when a component of that
\* name is stored under key, and then the plugin's components and the
\* component's back-reference are as before; otherwise the component goes
\* last under key, in a new collection when key was absent, whatever the
\* model says of the key or the component, and its back-reference is the
\* name of the plugin.
C21_AddRefusesDuplicatesOrAppends ==
    [][ last'.op = "plugin.add"
        => IF HasNamed(objects[last'.pid], last'.key, last'.name)
           THEN /\ last'.exc = "AttributeError"
                /\ objects'[last'.pid].components = objects[last'.pid].components
                /\ objects'[last'.result].plugin = objects[last'.result].plugin
           ELSE /\ last'.exc = "none"
                /\ Held(objects'[last'.pid])
                      = DictSet(Held(objects[last'.pid]), last'.key,
                                Append(HeldUnder(objects[last'.pid], last'.key),
                                       last'.result))
                /\ objects'[last'.result].plugin = objects[last'.pid].name
                /\ Plugin_get(objects'[last'.pid], last'.key)
                      [Len(Plugin_get(objects'[last'.pid], last'.key))]
                      = objects'[last'.result] ]_vars

\* A component that was never attached has just been refused under a key
\* that holds another component of its name, one whose group the model
\* does not admit.
C21_Witness ==
    /\ last.op = "plugin.add"
    /\ last.exc = "AttributeError"
    /\ objects[last.result].plugin = None
    /\ \E j \in 1..Len(Plugin_get(objects[last.pid], last.key)) :
          /\ Plugin_get(objects[last.pid], last.key)[j].name = last.name
          /\ Plugin_get(objects[last.pid], last.key)[j].id # last.result
          /\ ~Spec_validate(objects[last.pid].model, last.key,
                            Plugin_get(objects[last.pid], last.key)[j]).ret

\* C22: whatever add and remove calls a plugin has received, no two
\* components stored under one of its keys have the same name.
C22_NamesUniquePerKey ==
    \A ref \in Owners : \A i \in 1..Len(objects[ref].components) :
        \A j, h \in 1..Len(objects[ref].components[i].v) :
            objects[ref].components[i].v[j].name = objects[ref].components[i].v[h].name
                => j = h

\* A key holds two components after a component of the name of one of them
\* was added to the plugin and removed again.
C22_Witness ==
    \E key \in FieldKeys :
        /\ Len(Plugin_get(objects[1], key)) = 2
        /\ \E c \in SharedRefs :
              /\ objects[c].plugin = objects[1].name
              /\ \A i \in 1..Len(Held(objects[1])) : c \notin Range(Held(objects[1])[i].v)
              /\ HasNamed(objects[1], key, objects[c].name)

\* C23: remove(key, name) takes the component called name out of the
\* collection under key and keeps the others in their order; it raises
\* KeyError and changes nothing when key is absent or holds no component of
\* that name; remove(key) deletes the entry of key.
C23_RemoveTakesOneOrTheEntry ==
    [][ last'.op = "plugin.remove"
        => IF ~DictHas(objects[last'.pid].components, last'.key)
           THEN last'.exc = "KeyError" /\ objects' = objects
           ELSE IF last'.name = None
           THEN /\ last'.exc = "none"
                /\ ~DictHas(objects'[last'.pid].components, last'.key)
                /\ objects'[last'.pid].components
                      = SelectSeq(objects[last'.pid].components,
                                  LAMBDA e : e.k # last'.key)
           ELSE IF ~HasNamed(objects[last'.pid], last'.key, last'.name)
           THEN last'.exc = "KeyError" /\ objects' = objects
           ELSE /\ last'.exc = "none"
                /\ objects'[last'.pid].components
                      = DictSet(objects[last'.pid].components, last'.key,
                                SelectSeq(Plugin_get(objects[last'.pid], last'.key),
                                          LAMBDA c : c.name # last'.name))
                /\ Len(Plugin_get(objects'[last'.pid], last'.key))
                      = Len(Plugin_get(objects[last'.pid], last'.key)) - 1 ]_vars

\* One of two components was removed by name: the other is still under the
\* key.
C23_Witness ==
    /\ last.op = "plugin.remove"
    /\ last.exc = "none"
    /\ last.name # None
    /\ Len(Plugin_get(objects[last.pid], last.key)) = 1
    /\ \E c \in SharedRefs :
          /\ objects[c].name = last.name
          /\ objects[c].plugin = objects[last.pid].name
          /\ c \notin Range(HeldUnder(objects[last.pid], last.key))

\* C24: once add has set the back-reference of a component to a plugin
\* name, no later call changes it to another name.
C24_BackReferenceWrittenOnce ==
    [][ \A c \in SharedRefs :
          objects[c].plugin # None => objects'[c].plugin = objects[c].plugin ]_vars

\* The dependency called name among Dependencies.
DependencyNamed(name) ==
    Dependencies[CHOOSE d \in 1..Len(Dependencies) : Dependencies[d].name = name]

\* C25: validate(plugin) returns False and does not call the predicate when
\* one of the referenced fields is not a key of plugin.components; otherwise
\* it calls the predicate once, with one keyword argument for each
\* referenced field, bound to the whole collection of the field, and the
\* outcome of the call is the outcome of validate.
C25_PredicateCalledOnceOrNotAtAll ==
    [][ last'.op = "dependency.validate"
        => IF \E f \in Range(DependencyNamed(last'.name).fields) :
                  ~DictHas(objects[last'.pid].components, f)
           THEN /\ last'.exc = "none"
                /\ last'.result.ret = FALSE
                /\ last'.result.calls = << >>
           ELSE /\ Len(last'.result.calls) = 1
                /\ DictKeySet(last'.result.calls[1])
                      = Range(DependencyNamed(last'.name).fields)
                /\ Len(last'.result.calls[1])
                      = Cardinality(Range(DependencyNamed(last'.name).fields))
                /\ \A i \in 1..Len(last'.result.calls[1]) :
                      last'.result.calls[1][i].v
                        = DictGet(objects[last'.pid].components,
                                  last'.result.calls[1][i].k)
                /\ last'.exc
                      = ApplyPredicate(DependencyNamed(last'.name).predicate,
                                       last'.result.calls[1]).exc
                /\ last'.result.ret
                      = ApplyPredicate(DependencyNamed(last'.name).predicate,
                                       last'.result.calls[1]).ret ]_vars

\* The dependency on two fields was validated on a plugin that has the first
\* field, with a component, and not the second.
C25_Witness ==
    /\ last.op = "dependency.validate"
    /\ last.name = "paired"
    /\ Plugin_get(objects[last.pid], "commands") # << >>
    /\ ~DictHas(objects[last.pid].components, "main")
    /\ last.result.calls = << >>
    /\ ~last.result.ret

\* ------------------------------------------------------------------------
\* Properties of the field rules
\* ------------------------------------------------------------------------
\* C26: for a command that is top-level, in an allowed group or in another
\* group, and each value of admits_top_level and admits_new_groups,
\* validate returns True exactly when the command is top-level and
\* top-level commands are admitted, or it has a group and the group is
\* allowed or new groups are admitted.
C26_ValidIffAdmitted ==
    [][ last'.op = "command.validate"
        => last'.result
             = IF CommandCase(last'.pid).comp.group = None
               THEN CommandCase(last'.pid).spec.admits_top_level
               ELSE \/ CommandCase(last'.pid).comp.group
                          \in CommandCase(last'.pid).spec.groups
                    \/ CommandCase(last'.pid).spec.admits_new_groups ]_vars

\* The positional parameters of a function, as (name, annotation) pairs.
Pairs(fn) ==
    [i \in 1..Len(describe_signature(fn).positional) |->
        [k |-> describe_signature(fn).positional[i].name,
         v |-> describe_signature(fn).positional[i].annotation]]

\* C27: validate returns True exactly when the positional parameters of
\* the hook, as ordered (name, annotated type) pairs, are the declared
\* arg_types, *args and **kwargs are present only if allowed, and the
\* return annotation is the declared return type (any annotation for Any,
\* none for None); otherwise it returns False.
C27_ValidIffSignatureMatches ==
    [][ (last'.op = "hook.validate" /\ ~HookCase(last'.pid).spec.return_type.tuple)
        => /\ last'.exc = "none"
           /\ last'.result
                = (/\ Pairs(HookCase(last'.pid).obj.func)
                        = HookCase(last'.pid).spec.arg_types
                   /\ describe_signature(HookCase(last'.pid).obj.func).has_var_positional
                        => HookCase(last'.pid).spec.allow_var_args
                   /\ describe_signature(HookCase(last'.pid).obj.func).has_var_keyword
                        => HookCase(last'.pid).spec.allow_var_kwargs
                   /\ check_output(HookCase(last'.pid).spec,
                                   HookCase(last'.pid).obj.func.return_annotation)) ]_vars

\* ------------------------------------------------------------------------
\* Properties of the registry: versions and the enabled list
\* ------------------------------------------------------------------------
\* The plugin object holds the component object comp.
Provides(plugin, comp) ==
    \E i \in 1..Len(plugin.components) :
        \E j \in 1..Len(plugin.components[i].v) : plugin.components[i].v[j].id = comp.id

\* C28: every component of the pool is a component of the plugin object
\* stored in plugins under the name of the component's owner, so that no
\* component of a replaced version of a plugin is left in the pool.
C28_PoolHoldsStoredVersionsOnly ==
    \A i \in 1..Len(components) : \A j \in 1..Len(components[i].v) :
        /\ DictHas(plugins, components[i].v[j].plugin)
        /\ Provides(DictGet(plugins, components[i].v[j].plugin), components[i].v[j])

\* C29: whatever register, enable and disable calls the registry has
\* received, under each conflict policy and each value of
\* enable_by_default, no name is twice in enabled and every name in enabled
\* is a key of plugins.
C29_EnabledNamesAreRegisteredOnce ==
    /\ \A i, j \in 1..Len(enabled) : enabled[i] = enabled[j] => i = j
    /\ \A i \in 1..Len(enabled) : DictHas(plugins, enabled[i])

\* A plugin that was enabled has just been registered again, replacing the
\* first version, next to another enabled plugin.
C29_Witness ==
    /\ last.op = "register"
    /\ last.exc = "none"
    /\ last.warned
    /\ DictGet(plugins, last.name) = Catalogue[last.pid]
    /\ last.name \in Range(enabled)
    /\ Len(enabled) = 2

\* ------------------------------------------------------------------------
\* Properties of extraction after any findings
\* ------------------------------------------------------------------------
\* C30: extract() returns a plugin and raises nothing, whatever validate()
\* found on the plugin, also when a unique field holds two components of
\* which one fails its spec, so that the field is both invalid and
\* not-unique.
C30_ExtractAlwaysReturns ==
    [][ last'.op = "extract" => (last'.exc = "none" /\ extracted' # 0) ]_vars

\* ------------------------------------------------------------------------
\* Properties of visibility
\* ------------------------------------------------------------------------
\* The components of comps that the plugin called name owns, and the others.
OwnedBy(comps, name) == SelectSeq(comps, LAMBDA c : c.plugin = name)

NotOwnedBy(comps, name) == SelectSeq(comps, LAMBDA c : c.plugin # name)

\* The registry after the step.
RegistryAfter ==
    [resolver |-> resolver', validator_type |-> validator_type',
     enable_by_default |-> enable_by_default',
     plugins |-> plugins', enabled |-> enabled', components |-> components']

\* C31: right after disable(p), get(key, None, True) returns no component
\* owned by p and get(key, None, False) returns the whole collection under
\* key; right after enable(p), get(key, None, True) returns every component
\* of p under key; and enable(p) and disable(p) leave the pool as it is and
\* change nothing in what get returns of the other plugins.
C31_TogglingHidesAndShows ==
    [][ /\ (last.op = "disable" /\ last'.op = "get" /\ last'.name = None)
           => IF last'.enabled_only
              THEN OwnedBy(last'.result, last.name) = << >>
              ELSE last'.result = PoolAt(components, last'.key)
        /\ (last.op = "enable" /\ last.exc = "none"
               /\ last'.op = "get" /\ last'.name = None /\ last'.enabled_only)
           => OwnedBy(last'.result, last.name)
                 = OwnedBy(PoolAt(components, last'.key), last.name)
        /\ last'.op \in {"enable", "disable"}
           => /\ components' = components
              /\ plugins' = plugins
              /\ \A key \in AllKeys, enabled_only \in BOOLEAN :
                    NotOwnedBy(PluginRegistry_get(RegistryAfter, key, None, enabled_only),
                               last'.name)
                      = NotOwnedBy(PluginRegistry_get(Registry, key, None, enabled_only),
                                   last'.name) ]_vars

\* get(key, None, True) was called while a registered plugin that has
\* components under key is disabled: it returned components, and fewer than
\* the pool holds under key.
C31_Witness ==
    /\ last.op = "get"
    /\ last.name = None
    /\ last.enabled_only
    /\ last.result # << >>
    /\ Len(last.result) < Len(PoolAt(components, last.key))
    /\ \E name \in DictKeySet(plugins) \ Range(enabled) :
          OwnedBy(PoolAt(components, last.key), name) # << >>

\* ------------------------------------------------------------------------
\* Properties of the single checks
\* ------------------------------------------------------------------------
\* The call that was just made is the check called name, on a new validator.
Checked(name) == last'.op = "check" /\ last'.name = name

\* The validator v holds no finding except, possibly, in the collection
\* called kept.
OnlyFinds(v, kept) ==
    /\ kept = "missing" \/ v.missing = << >>
    /\ kept = "not_unique" \/ v.not_unique = << >>
    /\ kept = "unknown" \/ v.unknown = << >>
    /\ kept = "invalid" \/ v.invalid = DictEmpty
    /\ kept = "deps_unsatisfied" \/ v.deps_unsatisfied = << >>

\* C32: check_required makes missing the names of the fields of the model
\* that are required and are not keys of the plugin's components, in the
\* order of the model, and records no other finding.
C32_MissingAreTheAbsentRequiredFields ==
    [][ Checked("check_required")
        => /\ last'.exc = "none"
           /\ last'.result.missing
                 = SelectSeq(DictKeys(model.fields),
                             LAMBDA f : /\ DictGet(model.fields, f).required
                                        /\ ~DictHas(objects[1].components, f))
           /\ OnlyFinds(last'.result, "missing") ]_vars

\* check_required ran on a plugin that has components, under other keys
\* than the required one, and flagged the required field.
C32_Witness ==
    /\ last.op = "check"
    /\ last.name = "check_required"
    /\ last.result.missing # << >>
    /\ PoolSize(objects[1].components) > 0

\* C33: check_unique makes not_unique the names of the fields of the model
\* that are unique and under which the plugin holds more than one
\* component; a unique field that is no key of the plugin, or holds no
\* component or one, is not flagged.
C33_NotUniqueAreTheCrowdedUniqueFields ==
    [][ Checked("check_unique")
        => /\ last'.exc = "none"
           /\ last'.result.not_unique
                 = SelectSeq(DictKeys(model.fields),
                             LAMBDA f : /\ DictGet(model.fields, f).unique
                                        /\ DictHas(objects[1].components, f)
                                        /\ Len(DictGet(objects[1].components, f)) > 1)
           /\ OnlyFinds(last'.result, "not_unique") ]_vars

\* check_unique flagged a unique field that holds two components.
C33_Witness ==
    /\ last.op = "check"
    /\ last.name = "check_unique"
    /\ \E i \in 1..Len(last.result.not_unique) :
          Len(Plugin_get(objects[1], last.result.not_unique[i])) = 2

\* C34: check_unknown makes unknown the keys of the plugin's components
\* that are not keys of the fields of the model, in the order of the
\* plugin's keys; a key that is the name of a dependency spec and of no
\* field spec is among them.
C34_UnknownAreTheKeysOutsideTheFields ==
    [][ Checked("check_unknown")
        => /\ last'.exc = "none"
           /\ last'.result.unknown
                 = SelectSeq(DictKeys(objects[1].components),
                             LAMBDA f : f \notin DictKeySet(model.fields))
           /\ OnlyFinds(last'.result, "unknown") ]_vars

\* check_unknown flagged a key that is the name of a dependency spec of the
\* model, after a key that is a field of the model.
C34_Witness ==
    /\ last.op = "check"
    /\ last.name = "check_unknown"
    /\ \E i \in 1..Len(last.result.unknown) :
          DictHas(model.dependencies, last.result.unknown[i])
    /\ Len(last.result.unknown) < Len(objects[1].components)

\* The components of comps that fail the spec the model has for key.
Failing(key, comps) ==
    SelectSeq(comps, LAMBDA c : ~Spec_validate(model, key, c).ret)

\* C35: check_rules validates every component of every key of the plugin
\* against the spec of the key, and then invalid maps each key that has a
\* failing component to the failing components of the key, in order, and
\* has no other key.
C35_InvalidAreTheFailingComponents ==
    [][ Checked("check_rules")
        => /\ last'.exc = "none"
           /\ last'.result.invalid
                 = SelectSeq([i \in 1..Len(objects[1].components) |->
                                [k |-> objects[1].components[i].k,
                                 v |-> Failing(objects[1].components[i].k,
                                               objects[1].components[i].v)]],
                             LAMBDA e : e.v # << >>)
           /\ OnlyFinds(last'.result, "invalid") ]_vars

\* ------------------------------------------------------------------------
\* Properties of the checks together
\* ------------------------------------------------------------------------
\* C36: the five checks called on a new validator in any order leave the
\* missing, unknown, not_unique, invalid and deps_unsatisfied that the
\* order of validate() leaves, and so the same verdict.
C36_ChecksCommute ==
    [][ last'.op = "checks"
        => /\ last'.result.missing
                 = PluginValidator_validate(PluginValidator(objects[1])).validator.missing
           /\ last'.result.unknown
                 = PluginValidator_validate(PluginValidator(objects[1])).validator.unknown
           /\ last'.result.not_unique
                 = PluginValidator_validate(PluginValidator(objects[1])).validator.not_unique
           /\ last'.result.invalid
                 = PluginValidator_validate(PluginValidator(objects[1])).validator.invalid
           /\ last'.result.deps_unsatisfied
                 = PluginValidator_validate(PluginValidator(objects[1])).validator
                      .deps_unsatisfied
           /\ validate_verdict(last'.result).ret
                 = PluginValidator_validate(PluginValidator(objects[1])).ret ]_vars

\* C37: validating the plugin that extract() returned, against the same
\* model, finds no unknown key, no field that is not unique and no invalid
\* component.
C37_ExtractedHasNoRemovableFinding ==
    [][ last'.op = "revalidate"
        => /\ last'.result.unknown = << >>
           /\ last'.result.not_unique = << >>
           /\ last'.result.invalid = DictEmpty ]_vars

\* C38: a second validate() on the same validator, the plugin and the
\* model being the same, returns what the first returned and leaves the
\* five collections as the first call left them.
C38_ValidateTwiceChangesNothing ==
    [][ (last'.op = "validate" /\ last'.twice)
        => /\ last'.exc = last.exc
           /\ last'.result = last.result
           /\ validator'.missing = validator.missing
           /\ validator'.unknown = validator.unknown
           /\ validator'.not_unique = validator.not_unique
           /\ validator'.invalid = validator.invalid
           /\ validator'.deps_unsatisfied = validator.deps_unsatisfied ]_vars

\* C38, as the code has it: a second validate() on the same validator ends
\* as the first did (the same boolean, or the same exception) and leaves
\* invalid as it was, but the four lists are appended to again: each of
\* missing, unknown, not_unique and deps_unsatisfied is then what the first
\* call left followed by what the second call found, which is the same
\* findings once more.
C38_ValidateTwiceRecordsTwice ==
    [][ (last'.op = "validate" /\ last'.twice)
        => /\ last'.exc = last.exc
           /\ last'.result = last.result
           /\ validator'.invalid = validator.invalid
           /\ validator'.missing = validator.missing \o validator.missing
           /\ validator'.not_unique = validator.not_unique \o validator.not_unique
           /\ validator'.unknown = validator.unknown \o validator.unknown
           /\ validator'.deps_unsatisfied
                 = validator.deps_unsatisfied \o validator.deps_unsatisfied ]_vars

\* A second validate() has doubled a list of findings.
C38_Witness ==
    /\ last.op = "validate"
    /\ last.twice
    /\ Len(validator.missing) + Len(validator.not_unique) >= 2
    /\ validator.invalid # DictEmpty

\* ------------------------------------------------------------------------
\* Properties of the hook rule: totality
\* ------------------------------------------------------------------------
\* C39: HookSpec.validate raises for no hook and no declared arg_types and
\* returns a boolean; a spec whose arg_types is empty accepts no hook that
\* has a positional parameter, and a hook without positional parameters is
\* never accepted by a spec that declares some.
C39_HookValidateIsTotal ==
    [][ last'.op = "hook.validate"
        => /\ last'.exc = "none"
           /\ last'.result \in BOOLEAN
           /\ (/\ HookCase(last'.pid).spec.arg_types = DictEmpty
               /\ Pairs(HookCase(last'.pid).obj.func) # << >>) => ~last'.result
           /\ (/\ HookCase(last'.pid).spec.arg_types # DictEmpty
               /\ Pairs(HookCase(last'.pid).obj.func) = << >>) => ~last'.result ]_vars

====
